---- MODULE Spec2Model ----
(***************************************************************************)
(* Model of the sat_api service of OrbitalOS (backend/sat_api/src):        *)
(*   - SatelliteApi (api.rs): catalog refresh, freshness gate, queries,    *)
(*     background refresh task;                                            *)
(*   - SatelliteTracker (tracker.rs): load_satellites and the read side;   *)
(*   - AlertHub (alerts.rs) and stream_alerts (handlers.rs);               *)
(*   - RiskModel (ml.rs) behind its RwLock;                                *)
(*   - ConjunctionAnalyzer (conjunction.rs);                               *)
(*   - OrbitReservationManager (reservation.rs) and its handlers.          *)
(* Several specifications share the module:                                *)
(*   Spec        the concurrent catalog service (main, a request worker    *)
(*               and the background task);                                 *)
(*   SpecLoad    load_satellites, the refresh dedup and list pagination    *)
(*               applied to bounded inputs;                                *)
(*   SpecAlerts  the broadcast alert hub with tenant-filtered streams;     *)
(*   SpecRisk    the online risk model: predict, update, persist, load;    *)
(*   SpecConj    analyze_conjunctions on bounded satellite lists;          *)
(*   SpecRes     creation and status of orbit reservations;                *)
(*   SpecEval    conflict checks and launch feasibility;                   *)
(*   SpecLife    conflict checks of reservations in any status;            *)
(*   SpecLocks   the order in which the tasks take the locks;              *)
(*   SpecAdmin   the admin routes of the backend binary (backend/src).     *)
(***************************************************************************)
EXTENDS Integers, Sequences, FiniteSets, TLC

VARIABLES
    clock,          \* wall clock (Utc::now()), in ticks of 6 hours
    catalog,        \* SatelliteTracker.satellites: norad_id -> name
    iterOrder,      \* iteration order of the HashMap (sequence of its keys)
    last_update,    \* SatelliteApi.last_update
    trackerLock,    \* holder of the tracker mutex, or "free"
    started,        \* initialize() returned Ok: server and background task run
    bgNext,         \* next deadline of the background interval
    pc,             \* position of every task
    op,             \* the query a request task is serving
    all_satellites, \* the local Vec of a running refresh
    lu_seen,        \* ensure_data_fresh: last_update as read
    now_seen,       \* ensure_data_fresh: now as read
    ts,             \* update_satellite_data: the evaluated Utc::now() to store
    refreshResult,  \* outcome of the task's last refresh
    dirty,          \* the running refresh of the task has written shared state
    result,         \* the response of a request task
    ld_input,       \* SpecLoad: the vector handed to load / refresh
    ld_phase,       \* SpecLoad: "init", "loaded", "refreshed", "listed"
    ld_ok,          \* SpecLoad: load returned Ok
    ld_page,        \* SpecLoad: page, limit and failing objects of the list call
    ld_out,         \* SpecLoad: the positions the list call returned
    published,      \* SpecAlerts: every alert handed to publish, in order
    chan,           \* SpecAlerts: alerts accepted by the broadcast channel
    sub,            \* SpecAlerts: per stream: receiver state
    rk_file,        \* SpecRisk: content of the persistence file
    rk_up,          \* SpecRisk: the server process is running
    rk_model,       \* SpecRisk: the shared RiskModel behind the RwLock
    rk_lock,        \* SpecRisk: the RwLock: writer and poison flag
    rk_pc,          \* SpecRisk: position of every evaluation
    rk_left,        \* SpecRisk: the objects an evaluation has still to score
    rk_seen,        \* SpecRisk: the parameters guard.predict read
    rk_out,         \* SpecRisk: the result an evaluation has built so far
    rk_saved,       \* SpecRisk: the model of the last persist that wrote
    rk_persist,     \* SpecRisk: the persist call of the latest update
    rk_source,      \* SpecRisk: where load_or_default took the model from
    rk_now,         \* SpecRisk: wall clock
    rk_runs,        \* SpecRisk: number of process starts
    cj_sats,        \* SpecConj: the satellites handed to analyze_conjunctions
    cj_req,         \* SpecConj: the request and the start of its window
    cj_phase,       \* SpecConj: "screen", "pairs", "done"
    cj_cands,       \* SpecConj: the candidate pairs of the coarse screening
    cj_todo,        \* SpecConj: candidate pairs still to analyze
    cj_events,      \* SpecConj: the events pushed so far
    cj_resp,        \* SpecConj: the response
    cj_first,       \* SpecConj: the response to the same request, first order
    cj_pcOf,        \* SpecConj: collision probabilities computed so far
    res_store,      \* SpecRes, SpecEval: the reservation index, in order of creation
    res_check,      \* SpecRes, SpecEval: the response of the latest operation
    ad_phase,       \* SpecAdmin: "building", "serving", "panicked"
    ad_next,        \* SpecAdmin: index of the next .route(..) call of main
    ad_table,       \* SpecAdmin: the router: method and path -> service
    ad_policy,      \* SpecAdmin: what the router does with a repeated route
    ad_resp,        \* SpecAdmin: the latest request and its answer
    lk_prog,        \* SpecLocks: the lock steps every task has still to take
    lk_held         \* SpecLocks: the guards held on every lock

catVars   == <<clock, catalog, iterOrder, last_update, trackerLock, started,
               bgNext, pc, op, all_satellites, lu_seen, now_seen, ts,
               refreshResult, dirty, result>>
loadVars  == <<ld_input, ld_phase, ld_ok, ld_page, ld_out>>
alertVars == <<published, chan, sub>>
riskVars  == <<rk_file, rk_up, rk_model, rk_lock, rk_pc, rk_left, rk_seen,
               rk_out, rk_saved, rk_persist, rk_source, rk_now,
               rk_runs>>
conjVars  == <<cj_sats, cj_req, cj_phase, cj_cands, cj_todo, cj_events,
               cj_resp, cj_first, cj_pcOf>>
resVars   == <<res_store, res_check>>
adminVars == <<ad_phase, ad_next, ad_table, ad_policy, ad_resp>>
lockVars  == <<lk_prog, lk_held>>
auxVars   == <<adminVars, lockVars>>
extVars   == <<riskVars, conjVars, resVars, auxVars>>
vars      == <<catVars, loadVars, alertVars, extVars>>

----------------------------------------------------------------------------
(* Bounds *)
MaxTime    == 3      \* the clock stops ticking here
MaxFetched == 1      \* longest vector the feeds deliver in the concurrent spec
MaxInput   == 3      \* longest input vector in SpecLoad
MaxPage    == 2      \* largest page / limit in SpecLoad
MaxPublished == 3    \* alerts published in SpecAlerts
AlertBuffer  == 2    \* capacity of the broadcast channel in SpecAlerts
MaxEvents    == 2    \* objects one evaluation scores in SpecRisk
MaxRuns      == 2    \* starts of the service in SpecRisk
MaxUpdates   == 4    \* updates of the risk model in SpecRisk
MaxSats      == 3    \* satellites in one conjunction request in SpecConj
MaxHorizon   == 1    \* largest horizon_hours in SpecConj
MaxReservations == 1 \* stored reservations in SpecRes and SpecEval
MaxScored    == 1    \* objects one request scores with the risk model in SpecLocks

(* Program constants, in clock ticks (1 tick = 6 h) *)
UpdateIntervalTicks == 1     \* update_interval_hours: 6
InitialAgeTicks     == 4     \* Duration::days(1)

SAVE_INTERVAL == 25          \* ml.rs: observations between two saves

None == "none"

(* Option<usize>::None of page and limit *)
NoValue == 0 - 1

----------------------------------------------------------------------------
(* Element sets: norad_id, name, and whether SGP4 initialisation           *)
(* (Elements::from_tle and Constants::from_elements) accepts them.         *)
ElementSet(i, n, o) == [norad_id |-> i, name |-> n, sgp4_ok |-> o]

FeedUniverse ==
    { ElementSet(1, "STARLINK-7", TRUE), ElementSet(2, "DEBRIS", FALSE) }

LoadUniverse ==
    { ElementSet(1, "STARLINK-7", TRUE), ElementSet(1, "NAVSTAR 43", TRUE),
      ElementSet(1, "DEBRIS", FALSE),    ElementSet(2, "NAVSTAR 43", TRUE),
      ElementSet(3, "DEBRIS", TRUE) }

SeqsUpTo(S, n) == UNION { [1..k -> S] : k \in 0..n }

RECURSIVE Perms(_)
Perms(S) ==
    IF S = {} THEN { <<>> }
    ELSE UNION { { <<x>> \o p : p \in Perms(S \ {x}) } : x \in S }

(* Vec::sort_by_key(|s| s.norad_id): a stable sort.                        *)
RECURSIVE InsertByKey(_, _)
InsertByKey(sorted, e) ==
    IF sorted = <<>> THEN <<e>>
    ELSE IF Head(sorted).norad_id <= e.norad_id
         THEN <<Head(sorted)>> \o InsertByKey(Tail(sorted), e)
         ELSE <<e>> \o sorted

RECURSIVE SortByKey(_)
SortByKey(s) ==
    IF s = <<>> THEN <<>>
    ELSE InsertByKey(SortByKey(SubSeq(s, 1, Len(s) - 1)), s[Len(s)])

(* Vec::dedup_by_key: drops an element whose key equals the key of the     *)
(* element retained just before it.                                        *)
RECURSIVE DedupByKey(_)
DedupByKey(s) ==
    IF Len(s) <= 1 THEN s
    ELSE LET r == DedupByKey(SubSeq(s, 1, Len(s) - 1))
         IN  IF r[Len(r)].norad_id = s[Len(s)].norad_id THEN r
             ELSE Append(r, s[Len(s)])

----------------------------------------------------------------------------
(* SatelliteTracker::load_satellites: clear the map, then insert every     *)
(* element set whose initialisation succeeds (HashMap::insert overwrites), *)
(* count the insertions, and fail with NoSatelliteData when there were     *)
(* none.  The map is returned as it is left in the tracker.                *)
RECURSIVE LoadFold(_, _)
LoadFold(acc, s) ==
    IF s = <<>> THEN acc
    ELSE LET e == Head(s)
         IN  IF e.sgp4_ok
             THEN LoadFold([map |-> [k \in DOMAIN acc.map \cup {e.norad_id} |->
                                       IF k = e.norad_id THEN e.name
                                       ELSE acc.map[k]],
                            inserted |-> acc.inserted + 1],
                           Tail(s))
             ELSE LoadFold(acc, Tail(s))

EmptyMap == [k \in {} |-> None]

load_satellites(satellite_data) ==
    LET r == LoadFold([map |-> EmptyMap, inserted |-> 0], satellite_data)
    IN  [map |-> r.map, ok |-> r.inserted # 0]

----------------------------------------------------------------------------
(* Tasks *)
Main     == "main"
Bg       == "bg"
Requests == { "q1" }
Tasks    == { Main, Bg } \cup Requests

(* The five fetches of a refresh, in program order.                        *)
Feeds == << "fetch_nav", "fetch_comm", "fetch_active", "fetch_iss",
            "fetch_starlink" >>

(* fetch_navigation_satellites, fetch_communication_satellites and         *)
(* fetch_active_satellites sort and dedup their own result.                *)
InnerDedupFeeds == { "fetch_nav", "fetch_comm", "fetch_active" }

(* The suspension points of a refresh: the awaits on the upstream fetches. *)
AwaitPointsWithStore == { Feeds[i] : i \in 1..Len(Feeds) } \cup { "r_now" }

AwaitPoints == { Feeds[i] : i \in 1..Len(Feeds) }

NextFeed(f) ==
    LET i == CHOOSE k \in 1..Len(Feeds) : Feeds[k] = f
    IN  IF i < Len(Feeds) THEN Feeds[i + 1] ELSE "r_check"

(* What one upstream feed can deliver; an HTTP error delivers nothing.     *)
FeedResults(cur) ==
    IF Len(cur) >= MaxFetched THEN { <<>> }
    ELSE SeqsUpTo(FeedUniverse, MaxFetched - Len(cur))

(* ensure_data_fresh: now.signed_duration_since(last_update) > 6 h         *)
IsStaleSwapped(lu, now) == lu - now > UpdateIntervalTicks

IsStale(lu, now) == now - lu > UpdateIntervalTicks

----------------------------------------------------------------------------
(* The read side of the tracker.  A position is abstracted to the pair     *)
(* (norad_id, name); `fail` is the set of objects whose propagation fails. *)
Positions(order, fail) ==
    LET Keep(k) == k \notin fail
        kept    == SelectSeq(order, Keep)
    IN  [i \in 1..Len(kept) |-> [norad_id |-> kept[i], name |-> catalog[kept[i]]]]

(* get_satellites_by_group: name-substring rules, case-insensitive.        *)
MatchesGroup(group, name) ==
    CASE group = "starlink" -> name \in { "STARLINK-7" }
      [] group = "gps"      -> name \in { "NAVSTAR 43" }
      [] OTHER              -> FALSE

GroupPositions(group, fail) ==
    LET InGroup(p) == MatchesGroup(group, p.name)
    IN  SelectSeq(Positions(iterOrder, fail), InGroup)

(* get_all_satellites: the slice [page*limit, min(page*limit+limit, n))    *)
(* of get_all_positions when both page and limit are given.                *)
Paginate(positions, page, limit) ==
    IF page # NoValue /\ limit # NoValue
    THEN LET start == page * limit
             end   == IF start + limit < Len(positions) THEN start + limit
                      ELSE Len(positions)
         IN  IF start < Len(positions) THEN SubSeq(positions, start + 1, end)
             ELSE <<>>
    ELSE positions

(* Vec::truncate *)
Truncate(s, limit) ==
    IF limit # NoValue /\ limit < Len(s) THEN SubSeq(s, 1, limit) ELSE s

Ids(positions) == [i \in 1..Len(positions) |-> positions[i].norad_id]

Query(kind, a, b) == [kind |-> kind, a |-> a, b |-> b]

(* The requests of the concurrent specification.                           *)
QueryOps ==
    { Query("list", NoValue, NoValue), Query("get", 1, NoValue),
      Query("group", "starlink", NoValue), Query("propagate", 0, NoValue),
      Query("stats", NoValue, NoValue) }

OkResult(items) == [status |-> "Ok", items |-> items]
ErrResult(e)    == [status |-> e, items |-> <<>>]

(* The body of a query after ensure_data_fresh, under the tracker mutex.   *)
ReadCatalog(q, fail) ==
    CASE q.kind = "list" ->
            OkResult(Ids(Paginate(Positions(iterOrder, fail), q.a, q.b)))
      [] q.kind = "propagate" ->
            OkResult(Ids(Truncate(SortByKey(Positions(iterOrder, fail)), q.b)))
      [] q.kind = "get" ->
            IF q.a \notin DOMAIN catalog THEN ErrResult("SatelliteNotFound")
            ELSE IF q.a \in fail THEN ErrResult("PropagationError")
            ELSE OkResult(<<q.a>>)
      [] q.kind = "group" ->
            OkResult(Ids(GroupPositions(q.a, fail)))
      [] q.kind = "stats" ->
            OkResult(<< Cardinality(DOMAIN catalog), last_update,
                        Len(GroupPositions("starlink", fail)),
                        Len(GroupPositions("gps", fail)),
                        Len(GroupPositions("galileo", fail)) >>)

----------------------------------------------------------------------------
(* The concurrent catalog service                                          *)

taskVars == <<pc, op, all_satellites, lu_seen, now_seen, ts, refreshResult,
              dirty, result>>
LoadIdle  == /\ ld_input = <<>> /\ ld_phase = "off" /\ ld_ok = FALSE
             /\ ld_page = None /\ ld_out = <<>>
AlertIdle == /\ published = <<>> /\ chan = <<>> /\ sub = <<>>
CatIdle   == /\ clock = 0 /\ catalog = [k \in {} |-> "none"] /\ iterOrder = <<>>
             /\ last_update = 0 - InitialAgeTicks /\ trackerLock = "free"
             /\ started = FALSE /\ bgNext = 0
             /\ pc = [t \in Tasks |-> "unspawned"]
             /\ op = [t \in Tasks |-> None]
             /\ all_satellites = [t \in Tasks |-> <<>>]
             /\ lu_seen = [t \in Tasks |-> None]
             /\ now_seen = [t \in Tasks |-> None]
             /\ ts = [t \in Tasks |-> None]
             /\ refreshResult = [t \in Tasks |-> None]
             /\ dirty = [t \in Tasks |-> FALSE]
             /\ result = [t \in Tasks |-> None]
RiskIdle  == /\ rk_file = None /\ rk_up = FALSE /\ rk_model = None
             /\ rk_lock = None /\ rk_pc = <<>> /\ rk_left = <<>>
             /\ rk_seen = <<>> /\ rk_out = <<>> /\ rk_saved = None
             /\ rk_persist = None
             /\ rk_source = None /\ rk_now = 0 /\ rk_runs = 0
ConjIdle  == /\ cj_sats = <<>> /\ cj_req = None /\ cj_phase = "off"
             /\ cj_cands = <<>> /\ cj_todo = <<>> /\ cj_events = <<>>
             /\ cj_resp = None /\ cj_first = None /\ cj_pcOf = <<>>
ResIdle   == res_store = <<>> /\ res_check = None
AdminIdle == /\ ad_phase = "off" /\ ad_next = 0 /\ ad_table = <<>>
             /\ ad_policy = None /\ ad_resp = None
LockIdle  == lk_prog = <<>> /\ lk_held = <<>>
AuxIdle   == AdminIdle /\ LockIdle
ExtIdle   == RiskIdle /\ ConjIdle /\ ResIdle /\ AuxIdle

(* SatelliteApi::new followed by the call of initialize() in main.         *)
Init ==
    /\ clock = 0
    /\ catalog = EmptyMap
    /\ iterOrder = <<>>
    /\ last_update = 0 - InitialAgeTicks
    /\ trackerLock = "free"
    /\ started = FALSE
    /\ bgNext = 0
    /\ pc = [t \in Tasks |-> IF t = Main THEN "fetch_nav"
                             ELSE IF t = Bg THEN "unspawned" ELSE "idle"]
    /\ op = [t \in Tasks |-> None]
    /\ all_satellites = [t \in Tasks |-> <<>>]
    /\ lu_seen = [t \in Tasks |-> None]
    /\ now_seen = [t \in Tasks |-> None]
    /\ ts = [t \in Tasks |-> None]
    /\ refreshResult = [t \in Tasks |-> None]
    /\ dirty = [t \in Tasks |-> FALSE]
    /\ result = [t \in Tasks |-> None]
    /\ LoadIdle
    /\ AlertIdle
    /\ ExtIdle

(* Time passes.                                                            *)
Tick ==
    /\ clock < MaxTime
    /\ clock' = clock + 1
    /\ UNCHANGED <<catalog, iterOrder, last_update, trackerLock, started,
                   bgNext, taskVars, loadVars, alertVars, extVars>>

(* A request arrives at one of the query handlers.  All of them start     *)
(* with ensure_data_fresh; which query it is does not matter before the    *)
(* catalog is read, so the query is drawn in ReadQuery.                    *)
StartQuery(t) ==
    /\ started
    /\ pc[t] = "idle"
    /\ pc' = [pc EXCEPT ![t] = "ensure_lu"]
    /\ UNCHANGED <<clock, catalog, iterOrder, last_update, trackerLock,
                   started, bgNext, op, all_satellites, lu_seen, now_seen, ts,
                   refreshResult, dirty, result, loadVars, alertVars, extVars>>

(* ensure_data_fresh, first statement: read last_update under its mutex.   *)
EnsureReadLastUpdate(t) ==
    /\ pc[t] = "ensure_lu"
    /\ lu_seen' = [lu_seen EXCEPT ![t] = last_update]
    /\ pc' = [pc EXCEPT ![t] = "ensure_now"]
    /\ UNCHANGED <<clock, catalog, iterOrder, last_update, trackerLock,
                   started, bgNext, op, all_satellites, now_seen, ts,
                   refreshResult, dirty, result, loadVars, alertVars, extVars>>

(* ensure_data_fresh: read the clock and decide whether to refresh.        *)
EnsureCheck(t) ==
    /\ pc[t] = "ensure_now"
    /\ now_seen' = [now_seen EXCEPT ![t] = clock]
    /\ pc' = [pc EXCEPT ![t] = IF IsStale(lu_seen[t], clock)
                               THEN "fetch_nav" ELSE "q_read"]
    /\ UNCHANGED <<clock, catalog, iterOrder, last_update, trackerLock,
                   started, bgNext, op, all_satellites, lu_seen, ts,
                   refreshResult, dirty, result, loadVars, alertVars, extVars>>

(* One upstream fetch of a refresh completes and its result is appended.   *)
Fetch(t) ==
    /\ \E i \in 1..Len(Feeds) : pc[t] = Feeds[i]
    /\ \E r \in FeedResults(all_satellites[t]) :
          LET got == IF pc[t] \in InnerDedupFeeds
                     THEN DedupByKey(SortByKey(r)) ELSE r
          IN  all_satellites' =
                 [all_satellites EXCEPT ![t] = all_satellites[t] \o got]
    /\ pc' = [pc EXCEPT ![t] = NextFeed(pc[t])]
    /\ UNCHANGED <<clock, catalog, iterOrder, last_update, trackerLock,
                   started, bgNext, op, lu_seen, now_seen, ts,
                   refreshResult, dirty, result, loadVars, alertVars, extVars>>

(* Where a task continues when its refresh fails with NoSatelliteData:     *)
(* main panics, a request answers with the error, the background loop      *)
(* logs and waits for the next tick.                                       *)
FailedPc(t) ==
    IF t = Main THEN "panicked" ELSE IF t = Bg THEN "bg_tick" ELSE "q_done"

FailedResultStale(t) ==
    IF t \in Requests THEN OkResult(Ids(Positions(iterOrder, {})))
    ELSE result[t]

FailedResult(t) ==
    IF t \in Requests THEN ErrResult("NoSatelliteData") ELSE result[t]

(* The vector is checked for emptiness, sorted and deduplicated.           *)
RefreshCheck(t) ==
    /\ pc[t] = "r_check"
    /\ IF all_satellites[t] = <<>>
       THEN /\ pc' = [pc EXCEPT ![t] = FailedPc(t)]
            /\ refreshResult' = [refreshResult EXCEPT ![t] = "NoData"]
            /\ result' = [result EXCEPT ![t] = FailedResult(t)]
            /\ UNCHANGED all_satellites
       ELSE /\ pc' = [pc EXCEPT ![t] = "r_lock"]
            /\ all_satellites' = [all_satellites EXCEPT ![t] =
                                    DedupByKey(SortByKey(all_satellites[t]))]
            /\ UNCHANGED <<refreshResult, result>>
    /\ UNCHANGED <<clock, catalog, iterOrder, last_update, trackerLock,
                   started, bgNext, op, lu_seen, now_seen, ts, dirty,
                   loadVars, alertVars, extVars>>

(* self.tracker.lock()                                                     *)
LockTracker(t) ==
    /\ pc[t] = "r_lock"
    /\ trackerLock = "free"
    /\ trackerLock' = t
    /\ pc' = [pc EXCEPT ![t] = "r_load"]
    /\ UNCHANGED <<clock, catalog, iterOrder, last_update, started, bgNext,
                   op, all_satellites, lu_seen, now_seen, ts, refreshResult,
                   dirty, result, loadVars, alertVars, extVars>>

(* tracker.load_satellites(all_satellites) under the mutex.  On Ok a       *)
(* request (and main) keeps the guard for the timestamp store; the         *)
(* background task drops it.  On Err the guard is dropped by the return.   *)
Load(t) ==
    /\ pc[t] = "r_load"
    /\ LET r == load_satellites(all_satellites[t])
       IN  /\ catalog' = r.map
           /\ iterOrder' \in Perms(DOMAIN r.map)
           /\ IF r.ok
              THEN /\ pc' = [pc EXCEPT ![t] =
                               IF t = Bg THEN "bg_setlu" ELSE "r_now"]
                   /\ trackerLock' = IF t = Bg THEN "free" ELSE t
                   /\ dirty' = [dirty EXCEPT ![t] = TRUE]
                   /\ UNCHANGED <<refreshResult, result>>
              ELSE /\ pc' = [pc EXCEPT ![t] = FailedPc(t)]
                   /\ trackerLock' = "free"
                   /\ refreshResult' = [refreshResult EXCEPT ![t] = "NoData"]
                   /\ result' = [result EXCEPT ![t] = FailedResult(t)]
                   /\ UNCHANGED dirty
    /\ all_satellites' = [all_satellites EXCEPT ![t] = <<>>]
    /\ UNCHANGED <<clock, last_update, started, bgNext, op, lu_seen,
                   now_seen, ts, loadVars, alertVars, extVars>>

(* update_satellite_data: the right-hand side Utc::now() of the timestamp  *)
(* assignment is evaluated before the last_update mutex is taken.          *)
EvalNow(t) ==
    /\ pc[t] = "r_now"
    /\ ts' = [ts EXCEPT ![t] = clock]
    /\ pc' = [pc EXCEPT ![t] = "r_setlu"]
    /\ UNCHANGED <<clock, catalog, iterOrder, last_update, trackerLock,
                   started, bgNext, op, all_satellites, lu_seen, now_seen,
                   refreshResult, dirty, result, loadVars, alertVars, extVars>>

(* update_satellite_data: store the timestamp and return Ok, dropping the  *)
(* tracker guard.  In main, initialize() then spawns the background task.  *)
StoreLastUpdate(t) ==
    /\ pc[t] = "r_setlu"
    /\ last_update' = ts[t]
    /\ trackerLock' = "free"
    /\ refreshResult' = [refreshResult EXCEPT ![t] = "Ok"]
    /\ dirty' = [dirty EXCEPT ![t] = FALSE]
    /\ ts' = [ts EXCEPT ![t] = None]
    /\ IF t = Main
       THEN /\ started' = TRUE
            /\ pc' = [pc EXCEPT ![Main] = "serving", ![Bg] = "bg_init"]
       ELSE /\ UNCHANGED started
            /\ pc' = [pc EXCEPT ![t] = "q_read"]
    /\ UNCHANGED <<clock, catalog, iterOrder, bgNext, op, all_satellites,
                   lu_seen, now_seen, result, loadVars, alertVars, extVars>>

(* The query body: lock the tracker, read, answer.                         *)
ReadQuery(t) ==
    /\ pc[t] = "q_read"
    /\ trackerLock = "free"
    /\ \E q \in QueryOps, fail \in SUBSET DOMAIN catalog :
          /\ op' = [op EXCEPT ![t] = q]
          /\ result' = [result EXCEPT ![t] = ReadCatalog(q, fail)]
    /\ pc' = [pc EXCEPT ![t] = "q_done"]
    /\ UNCHANGED <<clock, catalog, iterOrder, last_update, trackerLock,
                   started, bgNext, all_satellites, lu_seen, now_seen,
                   ts, refreshResult, dirty, loadVars, alertVars, extVars>>

(* The response is sent (or the dropped request is forgotten) and the      *)
(* worker is ready for the next request.                                   *)
Finish(t) ==
    /\ pc[t] \in { "q_done", "dropped" }
    /\ pc' = [pc EXCEPT ![t] = "idle"]
    /\ op' = [op EXCEPT ![t] = None]
    /\ lu_seen' = [lu_seen EXCEPT ![t] = None]
    /\ now_seen' = [now_seen EXCEPT ![t] = None]
    /\ refreshResult' = [refreshResult EXCEPT ![t] = None]
    /\ dirty' = [dirty EXCEPT ![t] = FALSE]
    /\ result' = [result EXCEPT ![t] = None]
    /\ UNCHANGED <<clock, catalog, iterOrder, last_update, trackerLock,
                   started, bgNext, all_satellites, ts, loadVars, alertVars, extVars>>

(* The future of a refresh is dropped at a suspension point (the client    *)
(* of a request went away, or the background task is aborted); a guard it  *)
(* holds is released by the drop.                                          *)
Cancel(t) ==
    /\ t \in Requests \cup { Bg }
    /\ pc[t] \in AwaitPoints
    /\ pc' = [pc EXCEPT ![t] = IF t = Bg THEN "stopped" ELSE "dropped"]
    /\ trackerLock' = IF trackerLock = t THEN "free" ELSE trackerLock
    /\ all_satellites' = [all_satellites EXCEPT ![t] = <<>>]
    /\ ts' = [ts EXCEPT ![t] = None]
    /\ refreshResult' = [refreshResult EXCEPT ![t] = "Cancelled"]
    /\ UNCHANGED <<clock, catalog, iterOrder, last_update, started, bgNext,
                   op, lu_seen, now_seen, dirty, result, loadVars, alertVars, extVars>>

(* start_background_updates: the spawned task creates its interval; the    *)
(* first tick completes immediately.                                       *)
BgInit ==
    /\ pc[Bg] = "bg_init"
    /\ bgNext' = clock
    /\ pc' = [pc EXCEPT ![Bg] = "bg_tick"]
    /\ UNCHANGED <<clock, catalog, iterOrder, last_update, trackerLock,
                   started, op, all_satellites, lu_seen, now_seen, ts,
                   refreshResult, dirty, result, loadVars, alertVars, extVars>>

(* interval.tick().await completes and a background refresh starts.        *)
BgTick ==
    /\ pc[Bg] = "bg_tick"
    /\ clock >= bgNext
    /\ bgNext' = bgNext + UpdateIntervalTicks
    /\ pc' = [pc EXCEPT ![Bg] = "fetch_nav"]
    /\ refreshResult' = [refreshResult EXCEPT ![Bg] = None]
    /\ UNCHANGED <<clock, catalog, iterOrder, last_update, trackerLock,
                   started, op, all_satellites, lu_seen, now_seen, ts,
                   dirty, result, loadVars, alertVars, extVars>>

(* Background task: lock last_update, store Utc::now().                    *)
BgStoreLastUpdate ==
    /\ pc[Bg] = "bg_setlu"
    /\ last_update' = clock
    /\ refreshResult' = [refreshResult EXCEPT ![Bg] = "Ok"]
    /\ dirty' = [dirty EXCEPT ![Bg] = FALSE]
    /\ pc' = [pc EXCEPT ![Bg] = "bg_tick"]
    /\ UNCHANGED <<clock, catalog, iterOrder, trackerLock, started, bgNext,
                   op, all_satellites, lu_seen, now_seen, ts, result,
                   loadVars, alertVars, extVars>>

Next ==
    \/ Tick
    \/ \E t \in Requests : StartQuery(t)
    \/ \E t \in Requests : EnsureReadLastUpdate(t)
    \/ \E t \in Requests : EnsureCheck(t)
    \/ \E t \in Tasks : Fetch(t)
    \/ \E t \in Tasks : RefreshCheck(t)
    \/ \E t \in Tasks : LockTracker(t)
    \/ \E t \in Tasks : Load(t)
    \/ \E t \in Tasks : EvalNow(t)
    \/ \E t \in Tasks : StoreLastUpdate(t)
    \/ \E t \in Requests : ReadQuery(t)
    \/ \E t \in Requests : Finish(t)
    \/ \E t \in Tasks : Cancel(t)
    \/ BgInit
    \/ BgTick
    \/ BgStoreLastUpdate

Spec == Init /\ [][Next]_vars

----------------------------------------------------------------------------
(* load_satellites, the refresh dedup and get_all_satellites on bounded    *)
(* inputs                                                                  *)

PageValues == { NoValue } \cup 0..MaxPage

InitLoad ==
    /\ CatIdle
    /\ ExtIdle
    /\ ld_input \in SeqsUpTo(LoadUniverse, MaxInput)
    /\ ld_phase = "init"
    /\ ld_ok = FALSE
    /\ ld_page = None
    /\ ld_out = <<>>
    /\ AlertIdle

catRest == <<clock, last_update, trackerLock, started, bgNext, taskVars>>

(* tracker.load_satellites(ld_input)                                       *)
LoadDirect ==
    /\ ld_phase = "init"
    /\ LET r == load_satellites(ld_input)
       IN  /\ catalog' = r.map
           /\ iterOrder' \in Perms(DOMAIN r.map)
           /\ ld_ok' = r.ok
    /\ ld_phase' = "loaded"
    /\ UNCHANGED <<ld_input, ld_page, ld_out, catRest, alertVars, extVars>>

(* The tail of update_satellite_data on the collected vector ld_input:     *)
(* sort_by_key, dedup_by_key, load_satellites.                             *)
LoadViaRefresh ==
    /\ ld_phase = "init"
    /\ ld_input # <<>>
    /\ LET r == load_satellites(DedupByKey(SortByKey(ld_input)))
       IN  /\ catalog' = r.map
           /\ iterOrder' \in Perms(DOMAIN r.map)
           /\ ld_ok' = r.ok
    /\ ld_phase' = "refreshed"
    /\ UNCHANGED <<ld_input, ld_page, ld_out, catRest, alertVars, extVars>>

(* get_all_satellites(page, limit) on the loaded catalog.                  *)
ListObjects ==
    /\ ld_phase \in { "loaded", "refreshed" }
    /\ ld_ok
    /\ \E page \in PageValues, limit \in PageValues,
          fail \in SUBSET DOMAIN catalog :
          /\ ld_page' = [page |-> page, limit |-> limit, fail |-> fail]
          /\ ld_out' = Paginate(Positions(iterOrder, fail), page, limit)
    /\ ld_phase' = "listed"
    /\ UNCHANGED <<catalog, iterOrder, ld_input, ld_ok, catRest, alertVars, extVars>>

NextLoad == LoadDirect \/ LoadViaRefresh \/ ListObjects

SpecLoad == InitLoad /\ [][NextLoad]_vars

----------------------------------------------------------------------------
(* The alert hub: a tokio broadcast channel (alerts.rs) and the filtered   *)
(* server-sent-event streams of stream_alerts (handlers.rs)                *)

Streams == { "s1", "s2" }

DEFAULT_TENANT == "default"

(* Values of the x-tenant-id header; NoHeader is a request without it (or  *)
(* with a value that is not valid text).                                   *)
NoHeader == "<no header>"
Headers  == { NoHeader, "   ", "alpha", " Alpha ", "BETA" }

(* value.trim().to_lowercase()                                             *)
TrimLower(h) ==
    CASE h = "   "     -> ""
      [] h = "alpha"   -> "alpha"
      [] h = " Alpha " -> "alpha"
      [] h = "BETA"    -> "beta"

tenant_id_from_request(h) ==
    IF h = NoHeader THEN DEFAULT_TENANT
    ELSE IF TrimLower(h) = "" THEN DEFAULT_TENANT
    ELSE TrimLower(h)

LiveAlert(i, tenant) == [id |-> i, tenant_id |-> tenant]

(* The filter of stream_alerts on a received alert.                        *)
StreamFilterDefaultToAll(tenant_filter, alert) ==
    \/ alert.tenant_id = tenant_filter
    \/ alert.tenant_id = DEFAULT_TENANT

StreamFilter(tenant_filter, alert) ==
    LET allow_default == tenant_filter = DEFAULT_TENANT
    IN  \/ alert.tenant_id = tenant_filter
        \/ (allow_default /\ alert.tenant_id = DEFAULT_TENANT)

(* Sender::subscribe: the new receiver starts at the tail of the channel   *)
(* and sees only what is sent afterwards.                                  *)
SubscribeCursorOldest(tail) ==
    IF tail > AlertBuffer THEN tail - AlertBuffer ELSE 0

SubscribeCursor(tail) == tail

(* Receiver::recv on a receiver whose next value has been overwritten: the *)
(* cursor moves to the oldest value the channel still retains and the     *)
(* call returns Lagged(n), n the number of values skipped.                *)
LagResumeAtTail(tail) == tail

LagResume(tail) == tail - AlertBuffer

Unsubscribed ==
    [on |-> FALSE, tenant |-> None, next |-> 0, delivered |-> <<>>,
     lagged |-> FALSE, since |-> 0, lost |-> {}]

Receivers == { s \in Streams : sub[s].on }

InitAlerts ==
    /\ CatIdle
    /\ LoadIdle
    /\ ExtIdle
    /\ published = <<>>
    /\ chan = <<>>
    /\ sub = [s \in Streams |-> Unsubscribed]

(* GET /alerts/stream: subscribe and bind the stream to the tenant of the  *)
(* request.                                                                *)
Subscribe(s) ==
    /\ ~sub[s].on
    /\ \E h \in Headers :
          sub' = [sub EXCEPT ![s] =
                    [on |-> TRUE, tenant |-> tenant_id_from_request(h),
                     next |-> SubscribeCursor(Len(chan)), delivered |-> <<>>,
                     lagged |-> FALSE, since |-> Len(published),
                     lost |-> {}]]
    /\ UNCHANGED <<published, chan, catVars, loadVars, extVars>>

(* AlertHub::publish from predict_risk: the alert carries the tenant of    *)
(* the publishing request.  Sender::send stores nothing and returns an     *)
(* error, which publish ignores, when there is no receiver.                *)
Publish ==
    /\ Len(published) < MaxPublished
    /\ \E h \in Headers :
          LET alert == LiveAlert(Len(published) + 1, tenant_id_from_request(h))
          IN  /\ published' = Append(published, alert)
              /\ chan' = IF Receivers # {} THEN Append(chan, alert) ELSE chan
    /\ UNCHANGED <<sub, catVars, loadVars, extVars>>

(* The stream is polled: the receiver takes its next value.  When the      *)
(* value has been overwritten the receiver skips to the oldest retained    *)
(* one and the stream logs the lag; otherwise the alert is filtered by     *)
(* tenant and, when it passes, written to the client.                      *)
Poll(s) ==
    /\ sub[s].on
    /\ sub[s].next < Len(chan)
    /\ IF sub[s].next < Len(chan) - AlertBuffer
       THEN sub' = [sub EXCEPT
                      ![s].next = LagResume(Len(chan)),
                      ![s].lagged = TRUE,
                      ![s].lost = sub[s].lost \cup
                                  ((sub[s].next + 1)..LagResume(Len(chan)))]
       ELSE LET alert == chan[sub[s].next + 1]
            IN  sub' = [sub EXCEPT
                          ![s].next = sub[s].next + 1,
                          ![s].delivered =
                             IF StreamFilter(sub[s].tenant, alert)
                             THEN Append(sub[s].delivered, alert)
                             ELSE sub[s].delivered]
    /\ UNCHANGED <<published, chan, catVars, loadVars, extVars>>

(* The client goes away: the stream and its receiver are dropped.          *)
Disconnect(s) ==
    /\ sub[s].on
    /\ sub' = [sub EXCEPT ![s] = Unsubscribed]
    /\ UNCHANGED <<published, chan, catVars, loadVars, extVars>>

NextAlerts ==
    \/ \E s \in Streams : Subscribe(s)
    \/ Publish
    \/ \E s \in Streams : Poll(s)
    \/ \E s \in Streams : Disconnect(s)

SpecAlerts == InitAlerts /\ [][NextAlerts]_vars

----------------------------------------------------------------------------
(* The risk model (ml.rs) behind its RwLock, scored by predict_risk        *)
(* (handlers.rs) and by reservation conflict evaluation (reservation.rs),  *)
(* with its persistence file                                               *)

RiskTasks == { "predict_risk", "check_reservation" }

(* The f64 parameters (bias and the four coefficients) are kept as their   *)
(* provenance: the value the run started from and the gradient steps       *)
(* folded in since, each tagged with the evaluation that made it; finite   *)
(* tells whether all five are finite numbers.                              *)
DefaultWeights == [base |-> "default", hist |-> <<>>, finite |-> TRUE]
EarlierWeights == [base |-> "earlier", hist |-> <<>>, finite |-> TRUE]

(* load_or_default without a loadable file: RiskModelParameters::new and   *)
(* the default rates.                                                      *)
DefaultModel ==
    [weights |-> DefaultWeights, observation_count |-> 0,
     last_updated |-> NoValue, learning_rate |-> "5e-3",
     l2_penalty |-> "5e-4"]

(* A model an earlier run of the service left behind, one update short of  *)
(* a periodic save.                                                        *)
EarlierModel ==
    [weights |-> EarlierWeights, observation_count |-> SAVE_INTERVAL - 1,
     last_updated |-> 0, learning_rate |-> "1e-2", l2_penalty |-> "1e-3"]

(* u64::MAX.  The checker computes in 32-bit integers: their largest value *)
(* stands for the largest u64 (neither is a multiple of SAVE_INTERVAL).    *)
U64_MAX == 2147483647

(* A persisted model whose observation counter has reached the maximum.    *)
SaturatedModel == [EarlierModel EXCEPT !.observation_count = U64_MAX]

(* serde_json writes a finite f64 as a number and NaN or an infinity as    *)
(* null; Option<DateTime> is a string or null.                             *)
JsonF64(w) ==
    IF w.finite THEN [tok |-> "number", v |-> w]
    ELSE [tok |-> "null", v |-> DefaultWeights]

(* serde_json::to_string_pretty(&PersistedRiskModel { .. })                *)
ToJson(m) ==
    [params |-> [weights |-> JsonF64(m.weights),
                 observation_count |-> m.observation_count,
                 last_updated |-> m.last_updated],
     learning_rate |-> m.learning_rate,
     l2_penalty |-> m.l2_penalty]

NoFile      == [kind |-> "absent",  doc |-> ToJson(DefaultModel)]
GarbageFile == [kind |-> "garbage", doc |-> ToJson(DefaultModel)]
JsonFile(m) == [kind |-> "json",    doc |-> ToJson(m)]

(* serde_json::from_str::<PersistedRiskModel>: null is not an f64.         *)
ParsesAsModel(doc) == doc.params.weights.tok = "number"

FromJson(doc) ==
    [weights |-> doc.params.weights.v,
     observation_count |-> doc.params.observation_count,
     last_updated |-> doc.params.last_updated,
     learning_rate |-> doc.learning_rate,
     l2_penalty |-> doc.l2_penalty]

(* RiskModel::load_from_file: Some(model) or None.                         *)
load_from_file(file) ==
    IF file.kind = "json" /\ ParsesAsModel(file.doc)
    THEN [some |-> TRUE, model |-> FromJson(file.doc)]
    ELSE [some |-> FALSE, model |-> DefaultModel]

load_or_default(file) ==
    IF load_from_file(file).some THEN load_from_file(file).model
    ELSE DefaultModel

(* RiskModel::persist: the file is replaced by the serialized model, or an *)
(* I/O error (create_dir_all, File::create) leaves it as it was.           *)
PersistOutcomes == { "ok", "io_error" }

persist(m, file, io) == IF io = "ok" THEN JsonFile(m) ELSE file

(* The objects an evaluation walks through.  predict_risk scores every     *)
(* conjunction event.  check_satellite_conflict scores a catalog object    *)
(* only when it is flagged (min_distance <= protection radius or           *)
(* max_probability >= max_conjunction_probability); when the reservation   *)
(* window is empty (end_time < start_time) the sampling loop never runs,   *)
(* min_distance stays f64::INFINITY, and every object is flagged exactly   *)
(* when max_conjunction_probability <= 0.                                  *)
EventInputs ==
    UNION { [1..n -> { "event" }] : n \in 1..MaxEvents }

SatelliteInputs ==
    UNION { [1..n -> { "clear", "flagged" }] : n \in 0..MaxEvents }
      \cup UNION { [1..n -> { "unsampled" }] : n \in 1..MaxEvents }

RiskInputs(t) ==
    IF t = "predict_risk" THEN EventInputs ELSE SatelliteInputs

(* features[0] = min_distance.max(0.001) is infinite for an unsampled      *)
(* object; all other features are finite.                                  *)
FiniteFeatures(item) == item # "unsampled"

Params(m) == [weights |-> m.weights, observation_count |-> m.observation_count]

(* u64::wrapping_add                                                       *)
wrapping_add(a, b) ==
    IF a > U64_MAX - b THEN (b - 1) - (U64_MAX - a) ELSE a + b

(* u64::saturating_add                                                     *)
saturating_add(a, b) == IF a > U64_MAX - b THEN U64_MAX ELSE a + b

(* RiskModel::update up to the save: a gradient step on every parameter    *)
(* (a non-finite feature makes coefficients[0] non-finite, and it stays    *)
(* so), the observation counter and the timestamp.                         *)
Updated(m, t, item, now) ==
    [m EXCEPT !.weights = [base   |-> m.weights.base,
                           hist   |-> Append(m.weights.hist, t),
                           finite |-> m.weights.finite /\ FiniteFeatures(item)],
              !.observation_count = saturating_add(m.observation_count, 1),
              !.last_updated = now]

(* RwLock::write succeeds once no other guard is held.                     *)
WriteAvailableShared == TRUE

WriteAvailable == rk_lock.writer = None

FreshLock == [writer |-> None, poisoned |-> FALSE]
NoResult  == [ok |-> TRUE, ml |-> <<>>, snapshot |-> None]
NotSaved  == [set |-> FALSE, model |-> DefaultModel]

outsideRisk == <<catVars, loadVars, alertVars, conjVars, resVars, auxVars>>

InitFiles ==
    { NoFile, GarbageFile, JsonFile(EarlierModel), JsonFile(SaturatedModel) }

(* Before main runs: some persistence file, or none, is on disk.           *)
InitRisk ==
    /\ CatIdle
    /\ AuxIdle
    /\ LoadIdle
    /\ AlertIdle
    /\ ConjIdle
    /\ ResIdle
    /\ rk_file \in InitFiles
    /\ rk_up = FALSE
    /\ rk_model = DefaultModel
    /\ rk_lock = FreshLock
    /\ rk_pc = [t \in RiskTasks |-> "idle"]
    /\ rk_left = [t \in RiskTasks |-> <<>>]
    /\ rk_seen = [t \in RiskTasks |-> Params(DefaultModel)]
    /\ rk_out = [t \in RiskTasks |-> NoResult]
    /\ rk_saved = NotSaved
    /\ rk_persist = "none"
    /\ rk_source = None
    /\ rk_now = 0
    /\ rk_runs = 0

(* main: RiskModel::load_or_default(Some(path)) into a new RwLock.         *)
RkBoot ==
    /\ ~rk_up
    /\ rk_runs < MaxRuns
    /\ rk_up' = TRUE
    /\ rk_runs' = rk_runs + 1
    /\ rk_model' = load_or_default(rk_file)
    /\ rk_source' = IF load_from_file(rk_file).some THEN "file" ELSE "defaults"
    /\ rk_lock' = FreshLock
    /\ rk_pc' = [t \in RiskTasks |-> "idle"]
    /\ rk_left' = [t \in RiskTasks |-> <<>>]
    /\ rk_seen' = [t \in RiskTasks |-> Params(DefaultModel)]
    /\ rk_out' = [t \in RiskTasks |-> NoResult]
    /\ UNCHANGED <<rk_file, rk_saved, rk_persist, rk_now, outsideRisk>>

(* The updates the evaluations in flight may still make.                   *)
RECURSIVE Pending(_)
Pending(T) ==
    IF T = {} THEN 0
    ELSE LET t == CHOOSE x \in T : TRUE
         IN  Len(rk_left[t]) + Pending(T \ { t })

(* A request arrives: the handler has its events (predict_risk, after the  *)
(* conjunction analysis) or its catalog (reservation evaluation).          *)
RkStart(t) ==
    /\ rk_up
    /\ rk_pc[t] = "idle"
    /\ \E input \in RiskInputs(t) :
          /\ Len(rk_model.weights.hist) + Pending(RiskTasks) + Len(input)
                <= MaxUpdates
          /\ rk_left' = [rk_left EXCEPT ![t] = input]
    /\ rk_pc' = [rk_pc EXCEPT ![t] = "next"]
    /\ rk_out' = [rk_out EXCEPT ![t] = NoResult]
    /\ UNCHANGED <<rk_file, rk_up, rk_model, rk_lock, rk_seen, rk_saved, rk_persist,
                   rk_source, rk_now, rk_runs, outsideRisk>>

(* check_satellite_conflict on an object that is not flagged: Ok(None).    *)
RkSkip(t) ==
    /\ rk_pc[t] = "next"
    /\ rk_left[t] # <<>>
    /\ Head(rk_left[t]) = "clear"
    /\ rk_left' = [rk_left EXCEPT ![t] = Tail(rk_left[t])]
    /\ rk_out' = [rk_out EXCEPT ![t].ml = Append(rk_out[t].ml, "no conflict")]
    /\ UNCHANGED <<rk_file, rk_up, rk_model, rk_lock, rk_pc, rk_seen,
                   rk_saved, rk_persist, rk_source, rk_now, rk_runs, outsideRisk>>

(* risk_model.write() for the next object to score.  On a poisoned lock    *)
(* predict_risk takes 0.0 for the event and goes on; check_satellite_-     *)
(* conflict returns Err("Risk model unavailable") through `?`, which ends  *)
(* evaluate_conflicts_internal with that error.                            *)
RkWrite(t) ==
    /\ rk_pc[t] = "next"
    /\ rk_left[t] # <<>>
    /\ Head(rk_left[t]) # "clear"
    /\ WriteAvailable
    /\ IF rk_lock.poisoned
       THEN /\ IF t = "predict_risk"
               THEN /\ rk_out' = [rk_out EXCEPT
                                    ![t].ml = Append(rk_out[t].ml, "fallback")]
                    /\ rk_left' = [rk_left EXCEPT ![t] = Tail(rk_left[t])]
                    /\ UNCHANGED rk_pc
               ELSE /\ rk_out' = [rk_out EXCEPT ![t].ok = FALSE]
                    /\ rk_pc' = [rk_pc EXCEPT ![t] = "done"]
                    /\ rk_left' = [rk_left EXCEPT ![t] = <<>>]
            /\ UNCHANGED rk_lock
       ELSE /\ rk_lock' = [rk_lock EXCEPT !.writer = t]
            /\ rk_pc' = [rk_pc EXCEPT ![t] = "predict"]
            /\ UNCHANGED <<rk_out, rk_left>>
    /\ UNCHANGED <<rk_file, rk_up, rk_model, rk_seen, rk_saved, rk_persist, rk_source,
                   rk_now, rk_runs, outsideRisk>>

(* guard.predict(features)                                                 *)
RkPredict(t) ==
    /\ rk_pc[t] = "predict"
    /\ rk_seen' = [rk_seen EXCEPT ![t] = Params(rk_model)]
    /\ rk_pc' = [rk_pc EXCEPT ![t] = "update"]
    /\ UNCHANGED <<rk_file, rk_up, rk_model, rk_lock, rk_left, rk_out,
                   rk_saved, rk_persist, rk_source, rk_now, rk_runs, outsideRisk>>

(* guard.update(features, label), with the save every SAVE_INTERVAL        *)
(* observations (a failure is only logged), then the guard is dropped.     *)
RkUpdate(t) ==
    /\ rk_pc[t] = "update"
    /\ LET m == Updated(rk_model, t, Head(rk_left[t]), rk_now)
       IN  /\ rk_model' = m
           /\ IF m.observation_count % SAVE_INTERVAL = 0
              THEN \E io \in PersistOutcomes :
                      /\ rk_file' = persist(m, rk_file, io)
                      /\ rk_saved' = IF io = "ok"
                                     THEN [set |-> TRUE, model |-> m]
                                     ELSE rk_saved
                      /\ rk_persist' = io
              ELSE /\ rk_persist' = "none"
                   /\ UNCHANGED <<rk_file, rk_saved>>
    /\ rk_lock' = [rk_lock EXCEPT !.writer = None]
    /\ rk_out' = [rk_out EXCEPT ![t].ml = Append(rk_out[t].ml, "model")]
    /\ rk_left' = [rk_left EXCEPT ![t] = Tail(rk_left[t])]
    /\ rk_pc' = [rk_pc EXCEPT ![t] = "next"]
    /\ rk_seen' = [rk_seen EXCEPT ![t] = Params(DefaultModel)]
    /\ UNCHANGED <<rk_up, rk_source, rk_now, rk_runs, outsideRisk>>

(* The thread panics while it holds the write guard: the guard is dropped  *)
(* during unwinding and the RwLock is poisoned.                            *)
RkPanic(t) ==
    /\ rk_pc[t] \in { "predict", "update" }
    /\ rk_lock' = [writer |-> None, poisoned |-> TRUE]
    /\ rk_pc' = [rk_pc EXCEPT ![t] = "panicked"]
    /\ rk_left' = [rk_left EXCEPT ![t] = <<>>]
    /\ rk_seen' = [rk_seen EXCEPT ![t] = Params(DefaultModel)]
    /\ UNCHANGED <<rk_file, rk_up, rk_model, rk_out, rk_saved, rk_persist, rk_source,
                   rk_now, rk_runs, outsideRisk>>

(* All objects are done.  predict_risk ends with risk_model.read() for the *)
(* model snapshot of its response (zeroed when the lock is poisoned).      *)
RkFinish(t) ==
    /\ rk_pc[t] = "next"
    /\ rk_left[t] = <<>>
    /\ IF t = "predict_risk"
       THEN /\ rk_lock.writer = None
            /\ rk_out' = [rk_out EXCEPT ![t].snapshot =
                             IF rk_lock.poisoned THEN "zeroed" ELSE "model"]
       ELSE UNCHANGED rk_out
    /\ rk_pc' = [rk_pc EXCEPT ![t] = "done"]
    /\ UNCHANGED <<rk_file, rk_up, rk_model, rk_lock, rk_left, rk_seen,
                   rk_saved, rk_persist, rk_source, rk_now, rk_runs, outsideRisk>>

(* The server stops with no request in flight: the last Arc goes and       *)
(* Drop for RiskModel persists the model (a failure is only logged).       *)
(* Wall-clock time passes before the next start.                           *)
RkShutdown ==
    /\ rk_up
    /\ \A t \in RiskTasks : rk_pc[t] \in { "idle", "done", "panicked" }
    /\ \E io \in PersistOutcomes :
          /\ rk_file' = persist(rk_model, rk_file, io)
          /\ rk_saved' = IF io = "ok" THEN [set |-> TRUE, model |-> rk_model]
                         ELSE rk_saved
    /\ rk_up' = FALSE
    /\ UNCHANGED rk_persist
    /\ rk_now' = rk_now + 1
    /\ UNCHANGED <<rk_model, rk_lock, rk_pc, rk_left, rk_seen, rk_out,
                   rk_source, rk_runs, outsideRisk>>

NextRisk ==
    \/ RkBoot
    \/ \E t \in RiskTasks : RkStart(t)
    \/ \E t \in RiskTasks : RkSkip(t)
    \/ \E t \in RiskTasks : RkWrite(t)
    \/ \E t \in RiskTasks : RkPredict(t)
    \/ \E t \in RiskTasks : RkUpdate(t)
    \/ \E t \in RiskTasks : RkPanic(t)
    \/ \E t \in RiskTasks : RkFinish(t)
    \/ RkShutdown

SpecRisk == InitRisk /\ [][NextRisk]_vars

----------------------------------------------------------------------------
(* Conjunction analysis (conjunction.rs) on bounded inputs.  Time is in    *)
(* ticks of 30 s (the fine step of find_tca); the orbit is quantized to    *)
(* eight points with piecewise-linear cos and sin (twice their value, so   *)
(* positions are integer vectors), and distances are kept squared (the     *)
(* code only compares them).                                               *)

COARSE_STEP   == 10      \* Duration::seconds(300); also time_step_seconds
FINE_STEP     == 1       \* Duration::seconds(30)
SEARCH_WINDOW == 60      \* Duration::minutes(30)
HOUR          == 120     \* Duration::hours(1)
ALTITUDE_GATE == 200     \* quick_orbital_filter: (alt_a - alt_b).abs() > 200.0
SCREENING_SQ  == 225     \* screening_distance_km, squared, in model units
INFINITY      == 1000000 \* f64::INFINITY, above every squared distance

(* SatelliteData: inclination (degrees) and mean motion (eighths of a turn *)
(* per tick) stand for tle_line2, last_updated for the TLE epoch.          *)
SatUniverse ==
    { [norad_id |-> 1, incl |-> 0,  mm |-> 1, last_updated |-> 0],
      [norad_id |-> 2, incl |-> 0,  mm |-> 2, last_updated |-> 0 - 3],
      [norad_id |-> 3, incl |-> 90, mm |-> 3, last_updated |-> 0 - 1],
      [norad_id |-> 4, incl |-> 0,  mm |-> 5, last_updated |-> 0] }

Abs(x) == IF x < 0 THEN 0 - x ELSE x
Cos8(k) == <<2, 1, 0, 0 - 1, 0 - 2, 0 - 1, 0, 1>>[k + 1]
Sin8(k) == Cos8((k + 6) % 8)
CosI(i) == IF i = 0 THEN 1 ELSE 0
SinI(i) == IF i = 0 THEN 0 ELSE 1

VSub(p, q) == <<p[1] - q[1], p[2] - q[2], p[3] - q[3]>>
Norm2(v)   == v[1] * v[1] + v[2] * v[2] + v[3] * v[3]
Zeros      == <<0, 0, 0>>

(* propagate_to_eci: a circular orbit whose angle is time * mean motion    *)
(* and whose radius grows with the mean motion.                            *)
OrbitalAngle(sat, t) == (t * sat.mm) % 8
OrbitalRadius(sat)   == 8 + sat.mm

propagate_to_eci(sat, t) ==
    LET k == OrbitalAngle(sat, t)
        r == OrbitalRadius(sat)
    IN  <<r * Cos8(k), r * Sin8(k) * CosI(sat.incl),
          r * Sin8(k) * SinI(sat.incl)>>

(* propagate_velocity_to_eci: Vector3::new(-pos.y, pos.x, 0.0).normalize() *)
(* times the circular speed; normalizing the zero vector gives NaN.        *)
VelocityMagnitude(sat) == 6 - sat.mm

Sign(x) == IF x > 0 THEN 1 ELSE IF x < 0 THEN 0 - 1 ELSE 0

propagate_velocity_to_eci(sat, t) ==
    LET pos == propagate_to_eci(sat, t)
        k   == OrbitalAngle(sat, t)
        m   == VelocityMagnitude(sat)
    IN  IF pos[1] = 0 /\ pos[2] = 0
        THEN [nan |-> TRUE, v |-> Zeros]
        ELSE IF sat.incl = 0
        THEN [nan |-> FALSE, v |-> <<(0 - Sin8(k)) * m, Cos8(k) * m, 0>>]
        ELSE [nan |-> FALSE, v |-> <<0, 2 * Sign(pos[1]) * m, 0>>]

(* (pos_a - pos_b).norm(), squared                                         *)
Distance(pos_a, pos_b) == Norm2(VSub(pos_a, pos_b))

(* estimate_altitude_from_tle: Kepler's third law on the mean motion.      *)
estimate_altitude_from_tle(sat) ==
    CASE sat.mm = 1 -> 800 [] sat.mm = 2 -> 700 [] sat.mm = 3 -> 600
      [] sat.mm = 5 -> 300

quick_orbital_filter(sat_a, sat_b) ==
    Abs(estimate_altitude_from_tle(sat_a) - estimate_altitude_from_tle(sat_b))
        > ALTITUDE_GATE

(* The sampling loop of coarse_screening for one pair: TRUE when the       *)
(* running minimum gets below the screening distance.                      *)
RECURSIVE ScreenSamples(_, _, _, _, _)
ScreenSamples(sat_a, sat_b, current_time, end_time, min_distance) ==
    IF current_time > end_time THEN FALSE
    ELSE LET distance == Distance(propagate_to_eci(sat_a, current_time),
                                  propagate_to_eci(sat_b, current_time))
             m == IF distance < min_distance THEN distance ELSE min_distance
         IN  IF m < SCREENING_SQ THEN TRUE
             ELSE ScreenSamples(sat_a, sat_b, current_time + COARSE_STEP,
                                end_time, m)

IsCandidate(sat_a, sat_b, start_time, end_time) ==
    /\ ~quick_orbital_filter(sat_a, sat_b)
    /\ ScreenSamples(sat_a, sat_b, start_time, end_time, INFINITY)

(* for i in 0..n { for j in (i + 1)..n { .. } }                            *)
RECURSIVE IndexPairs(_, _, _)
IndexPairs(i, j, n) ==
    IF i >= n THEN <<>>
    ELSE IF j > n THEN IndexPairs(i + 1, i + 2, n)
    ELSE <<<<i, j>>>> \o IndexPairs(i, j + 1, n)

coarse_screening(satellites, start_time, end_time) ==
    LET idx     == IndexPairs(1, 2, Len(satellites))
        Keep(p) == IsCandidate(satellites[p[1]], satellites[p[2]],
                               start_time, end_time)
        kept    == SelectSeq(idx, Keep)
    IN  [k \in 1..Len(kept) |->
            <<satellites[kept[k][1]], satellites[kept[k][2]]>>]

(* The sample times of a loop `while current_time <= end_time` with a      *)
(* fixed step.                                                             *)
SampleTimes(start_time, end_time, step) ==
    IF end_time < start_time THEN {}
    ELSE { start_time + k * step : k \in 0..((end_time - start_time) \div step) }

(* One search loop of find_tca: a strictly smaller distance replaces the   *)
(* best sample so far, so the loop ends on the first sample of the         *)
(* smallest distance, when that is below the distance it started with.     *)
SearchLoop(sat_a, sat_b, start_time, end_time, step, best) ==
    LET times  == SampleTimes(start_time, end_time, step)
        dist   == [t \in times |->
                     Distance(propagate_to_eci(sat_a, t), propagate_to_eci(sat_b, t))]
        better == { t \in times : dist[t] < best.min_distance }
    IN  IF better = {} THEN best
        ELSE LET found == { dist[t] : t \in better }
                 least == CHOOSE d \in found : \A e \in found : d <= e
                 first == { t \in better : dist[t] = least }
                 at    == CHOOSE t \in first : \A u \in first : t <= u
             IN  [min_distance |-> least,
                  tca   |-> at,
                  vel_a |-> propagate_velocity_to_eci(sat_a, at),
                  vel_b |-> propagate_velocity_to_eci(sat_b, at)]

find_tca(sat_a, sat_b, start_time, end_time) ==
    LET init   == [min_distance |-> INFINITY, tca |-> start_time,
                   vel_a |-> [nan |-> FALSE, v |-> Zeros],
                   vel_b |-> [nan |-> FALSE, v |-> Zeros]]
        coarse == SearchLoop(sat_a, sat_b, start_time, end_time,
                             COARSE_STEP, init)
    IN  SearchLoop(sat_a, sat_b, coarse.tca - SEARCH_WINDOW,
                   coarse.tca + SEARCH_WINDOW, FINE_STEP, coarse)

(* calculate_tle_age_hours and estimate_covariance: an isotropic variance  *)
(* that grows with the age of the element set at TCA.                      *)
calculate_tle_age_hours(sat, t) == t - sat.last_updated

estimate_covariance(sat, tca) == 10 + calculate_tle_age_hours(sat, tca)

(* analyze_covariance: combined covariance cov_a + cov_b, projected with   *)
(* I - v v^T of the unit relative velocity.                                *)
CombinedCovarianceFirst(cov_a, cov_b) == cov_a

CombinedCovariance(cov_a, cov_b) == cov_a + cov_b

Outer(v) == <<v[1] * v[1], v[1] * v[2], v[1] * v[3],
              v[2] * v[2], v[2] * v[3], v[3] * v[3]>>

(* Everything calculate_collision_probability computes from: the combined  *)
(* covariance, the projector of the relative velocity and the relative     *)
(* speed.  A NaN velocity or a zero relative velocity (normalize) makes    *)
(* the probability NaN.                                                    *)
PcInputs(sat_a, sat_b, found) ==
    LET rel == VSub(found.vel_a.v, found.vel_b.v)
    IN  [nan   |-> found.vel_a.nan \/ found.vel_b.nan \/ rel = Zeros,
         cov   |-> CombinedCovariance(estimate_covariance(sat_a, found.tca),
                                      estimate_covariance(sat_b, found.tca)),
         outer |-> IF found.vel_a.nan \/ found.vel_b.nan THEN Outer(Zeros)
                   ELSE Outer(rel),
         speed |-> IF found.vel_a.nan \/ found.vel_b.nan THEN 0
                   ELSE Norm2(rel)]

(* risk bands and thresholds: probability levels 0 (exactly 0.0), 1, 2     *)
PcLevels   == 0..2
Thresholds == { 0, 1 }
StartTimes == { 1, 2 }

Reverse(s) == [i \in 1..Len(s) |-> s[Len(s) + 1 - i]]

(* conjunctions.sort_by(|a, b| b.pc.partial_cmp(&a.pc)...): a stable sort, *)
(* pc descending.                                                          *)
RECURSIVE InsertByPc(_, _)
InsertByPc(sorted, e) ==
    IF sorted = <<>> THEN <<e>>
    ELSE IF Head(sorted).pc >= e.pc
         THEN <<Head(sorted)>> \o InsertByPc(Tail(sorted), e)
         ELSE <<e>> \o sorted

RECURSIVE SortByPc(_)
SortByPc(s) ==
    IF s = <<>> THEN <<>>
    ELSE InsertByPc(SortByPc(SubSeq(s, 1, Len(s) - 1)), s[Len(s)])

outsideConj == <<catVars, loadVars, alertVars, riskVars, resVars, auxVars>>

(* the satellite lists of n different satellites                           *)
Orderings(n) ==
    { s \in [1..n -> SatUniverse] :
        \A i, j \in 1..n : i # j => s[i] # s[j] }

NoAnalysis == [done |-> FALSE, candidates |-> <<>>, conjunctions |-> <<>>]

(* screening_distance_km of a request, in model units: the                *)
(* default of the handler (100 km) or a tighter value.                     *)
ScreeningRequests == {15, 2}

(* A request: the satellites in the order the handler built them, the      *)
(* start of the window (Utc::now()), horizon_hours,                        *)
(* screening_distance_km and probability_threshold.                        *)
InitConj ==
    /\ CatIdle
    /\ AuxIdle
    /\ LoadIdle
    /\ AlertIdle
    /\ RiskIdle
    /\ ResIdle
    /\ cj_sats \in UNION { Orderings(n) : n \in 2..MaxSats }
    /\ cj_req \in [start : StartTimes, horizon_hours : 0..MaxHorizon,
                   screening_distance_km : ScreeningRequests,
                   probability_threshold : Thresholds]
    /\ cj_phase = "screen"
    /\ cj_cands = <<>>
    /\ cj_todo = <<>>
    /\ cj_events = <<>>
    /\ cj_resp = NoAnalysis
    /\ cj_first = NoAnalysis
    /\ cj_pcOf = <<>>

EndTime == cj_req.start + cj_req.horizon_hours * HOUR

(* Phase 1 of analyze_conjunctions                                         *)
CjScreen ==
    /\ cj_phase = "screen"
    /\ cj_cands' = coarse_screening(cj_sats, cj_req.start, EndTime)
    /\ cj_todo' = cj_cands'
    /\ cj_events' = <<>>
    /\ cj_phase' = "pairs"
    /\ UNCHANGED <<cj_sats, cj_req, cj_resp, cj_first, cj_pcOf, outsideConj>>

(* The probability calculate_collision_probability returns for inputs it   *)
(* has been given before.                                                  *)
Known(in) == \E i \in 1..Len(cj_pcOf) : cj_pcOf[i].in = in
PcOfKnown(in) ==
    cj_pcOf[CHOOSE i \in 1..Len(cj_pcOf) : cj_pcOf[i].in = in].pc

(* Phase 2, one candidate pair: analyze_pair, then the threshold test (a   *)
(* NaN probability fails it).  The probability is a function of PcInputs   *)
(* only: a value is picked the first time inputs occur and reused after.   *)
CjAnalyzePair ==
    /\ cj_phase = "pairs"
    /\ cj_todo # <<>>
    /\ LET sat_a == Head(cj_todo)[1]
           sat_b == Head(cj_todo)[2]
       IN  \E found \in { find_tca(sat_a, sat_b, cj_req.start, EndTime) } :
           \E in \in { PcInputs(sat_a, sat_b, found) } :
           \E prob \in PcLevels :
              /\ Known(in) => prob = PcOfKnown(in)
              /\ in.nan => prob = 0
              /\ cj_pcOf' = IF Known(in) \/ in.nan THEN cj_pcOf
                            ELSE Append(cj_pcOf, [in |-> in, pc |-> prob])
              /\ cj_events' =
                    IF ~in.nan /\ prob >= cj_req.probability_threshold
                    THEN Append(cj_events,
                                [satellite_a |-> sat_a.norad_id,
                                 satellite_b |-> sat_b.norad_id,
                                 tca |-> found.tca,
                                 dmin_km |-> found.min_distance,
                                 pc |-> prob])
                    ELSE cj_events
    /\ cj_todo' = Tail(cj_todo)
    /\ UNCHANGED <<cj_sats, cj_req, cj_phase, cj_cands, cj_resp, cj_first,
                   outsideConj>>

(* The sort and the response.                                              *)
CjRespond ==
    /\ cj_phase = "pairs"
    /\ cj_todo = <<>>
    /\ cj_resp' = [done |-> TRUE, candidates |-> cj_cands,
                   conjunctions |-> SortByPc(cj_events)]
    /\ cj_phase' = "done"
    /\ UNCHANGED <<cj_sats, cj_req, cj_cands, cj_todo, cj_events, cj_first,
                   cj_pcOf, outsideConj>>

(* The same request again with the satellites in the opposite order.       *)
CjAgainReversed ==
    /\ cj_phase = "done"
    /\ ~cj_first.done
    /\ cj_first' = cj_resp
    /\ cj_sats' = Reverse(cj_sats)
    /\ cj_resp' = NoAnalysis
    /\ cj_cands' = <<>>
    /\ cj_events' = <<>>
    /\ cj_phase' = "screen"
    /\ UNCHANGED <<cj_req, cj_todo, cj_pcOf, outsideConj>>

NextConj == CjScreen \/ CjAnalyzePair \/ CjRespond \/ CjAgainReversed

SpecConj == InitConj /\ [][NextConj]_vars

----------------------------------------------------------------------------
(* The orbit reservation manager (reservation.rs) behind its handlers.     *)
(* Orbits and times are those of the conjunction section; probabilities    *)
(* are in units of 1e-8.  Every catalog satellite the handlers pass has    *)
(* the same synthetic element set, so one satellite stands for the         *)
(* catalog.                                                                *)

ReservationStatus == { "Pending", "Active", "Expired", "Cancelled", "Violated" }
Priorities        == { "Critical", "Medium" }
ResTimes          == { 0, 20 }
Radii             == { 0, 3 }
FeasibilityRadii  == { 2, 25 }
MlLevels          == { 50, 500000 }     \* what RiskModel::predict may return
CatalogSizes      == { 0, 1 }           \* satellites in the catalog snapshot
RES_TIME_STEP     == 10                 \* Duration::minutes(5)
ONE               == 100000000          \* probability 1.0

ReservedOrbit == [norad_id |-> 1, incl |-> 0, mm |-> 1, last_updated |-> 0]

(* catalog_to_satellite_data: inclination 51.6 and mean motion 15.5 for    *)
(* every satellite                                                         *)
CatalogSatellite(k) ==
    [norad_id |-> 10 + k, incl |-> 0, mm |-> 2, last_updated |-> 0]

NoLaunch == [set |-> FALSE, perigee_alt_km |-> 0, apogee_alt_km |-> 0]

LaunchSpecs ==
    { [set |-> TRUE, perigee_alt_km |-> 2, apogee_alt_km |-> a] : a \in { 1, 2 } }

CreateRequests ==
    [ start_time : ResTimes, end_time : ResTimes,
      center_tle : { [set |-> FALSE, sat |-> ReservedOrbit],
                     [set |-> TRUE,  sat |-> ReservedOrbit] },
      new_launch : { NoLaunch } \cup LaunchSpecs,
      protection_radius_km : Radii,
      priority_level : Priorities ]

(* build_launch_satellite: the only validation is apogee < perigee; the    *)
(* mean motion falls with the semi-major axis.                             *)
build_launch_satellite(launch) ==
    IF launch.apogee_alt_km < launch.perigee_alt_km
    THEN [ok |-> FALSE, sat |-> ReservedOrbit, launch_profile |-> NoLaunch]
    ELSE [ok |-> TRUE,
          sat |-> [norad_id |-> 900, incl |-> 90,
                   mm |-> 5 - (launch.perigee_alt_km + launch.apogee_alt_km) \div 2,
                   last_updated |-> 0],
          launch_profile |-> launch]

resolve_center_satellite(request) ==
    IF request.center_tle.set
    THEN [ok |-> TRUE, sat |-> request.center_tle.sat, launch_profile |-> NoLaunch]
    ELSE IF request.new_launch.set
    THEN build_launch_satellite(request.new_launch)
    ELSE [ok |-> FALSE, sat |-> ReservedOrbit, launch_profile |-> NoLaunch]

(* the default constraints of create_reservation: 1e-6 and 1e-4            *)
DefaultMaxProbability(priority_level) ==
    IF priority_level = "Critical" THEN 100 ELSE 10000

(* Comparisons of a distance, kept squared, with a radius in km.           *)
DistanceBelow(d2, r)   == r > 0 /\ d2 < r * r
DistanceAtLeast(d2, r) == ~DistanceBelow(d2, r)
DistanceWithinStrict(d2, r) == r > 0 /\ d2 < r * r
DistanceWithin(d2, r)  == r >= 0 /\ d2 <= r * r

SeverityRank(s) ==
    CASE s = "Low" -> 0 [] s = "Medium" -> 1 [] s = "High" -> 2
      [] s = "Critical" -> 3

(* the thresholds are 0.1, 1 and 10 km and 1e-2, 1e-4 and 1e-6             *)
classify_conflict_severity(d2, probability) ==
    IF 100 * d2 < 1 \/ probability > 1000000 THEN "Critical"
    ELSE IF d2 < 1 \/ probability > 10000 THEN "High"
    ELSE IF d2 < 100 \/ probability > 100 THEN "Medium"
    ELSE "Low"

(* generate_mitigation_suggestions: thresholds 1e-3 and 1e-5               *)
generate_mitigation_suggestions(probability) ==
    IF probability > 100000 THEN "ManeuverAvoidance"
    ELSE IF probability > 1000 THEN "TimeShift"
    ELSE "WaitAndWatch"

(* calculate_simple_collision_probability with a 10 m hard body: 1.0 at    *)
(* no distance, and below 1e-8 from 1 km on.                               *)
calculate_simple_collision_probability(d2) == IF d2 = 0 THEN ONE ELSE 0

(* check_satellite_conflict: the sampling loop over the window, the        *)
(* conflict test, and the fusion with the model's probability ml.          *)
check_satellite_conflict(reservation, satellite, ml) ==
    LET times == SampleTimes(reservation.start_time, reservation.end_time,
                             RES_TIME_STEP)
        dist  == [t \in times |->
                    Distance(propagate_to_eci(reservation.center, t),
                             propagate_to_eci(satellite, t))]
        dists == { dist[t] : t \in times }
        min_distance == IF times = {} THEN INFINITY
                        ELSE CHOOSE d \in dists : \A e \in dists : d <= e
        max_probability ==
            IF min_distance = 0 THEN ONE ELSE 0
        tca   == IF times = {} THEN reservation.start_time
                 ELSE CHOOSE t \in times :
                        /\ dist[t] = min_distance
                        /\ \A u \in times : dist[u] = min_distance => t <= u
        fused == IF ml > max_probability THEN ml ELSE max_probability
    IN  IF \/ DistanceWithin(min_distance, reservation.protection_radius_km)
           \/ max_probability >= reservation.max_conjunction_probability
        THEN << [kind |-> "satellite",
                 other |-> satellite.norad_id,
                 severity |-> classify_conflict_severity(min_distance, fused),
                 time_of_closest_approach |-> tca,
                 minimum_distance_km |-> min_distance,
                 collision_probability |-> fused,
                 mitigation |-> generate_mitigation_suggestions(fused)] >>
        ELSE <<>>

(* Duration / 2 rounds toward zero                                         *)
Half(d) == IF d >= 0 THEN d \div 2 ELSE 0 - ((0 - d) \div 2)

Later(a, b)   == IF a >= b THEN a ELSE b
Earlier(a, b) == IF a <= b THEN a ELSE b

MidTime(reservation, other) ==
    LET overlap_start == Later(reservation.start_time, other.start_time)
        overlap_end   == Earlier(reservation.end_time, other.end_time)
    IN  overlap_start + Half(overlap_end - overlap_start)

CenterDistance(reservation, other, t) ==
    Distance(propagate_to_eci(reservation.center, t),
             propagate_to_eci(other.center, t))

(* check_reservation_overlap; j is the place of the other reservation in   *)
(* the index.                                                              *)
check_reservation_overlap(reservation, other, j) ==
    IF \/ reservation.end_time < other.start_time
       \/ reservation.start_time > other.end_time
    THEN <<>>
    ELSE LET mid_time == MidTime(reservation, other)
             distance == CenterDistance(reservation, other, mid_time)
             combined_radius == reservation.protection_radius_km
                                  + other.protection_radius_km
         IN  IF DistanceBelow(distance, combined_radius)
             THEN << [kind |-> "reservation",
                      other |-> j,
                      severity |-> IF \/ reservation.priority_level = "Critical"
                                      \/ other.priority_level = "Critical"
                                   THEN "High" ELSE "Medium",
                      time_of_closest_approach |-> mid_time,
                      minimum_distance_km |-> distance,
                      collision_probability |-> 0,
                      mitigation |-> "CoordinatedOperation"] >>
             ELSE <<>>

RECURSIVE Flatten(_)
Flatten(ss) == IF ss = <<>> THEN <<>> ELSE Head(ss) \o Flatten(Tail(ss))

HighestSeverity(conflicts) ==
    IF conflicts = <<>> THEN "Low"
    ELSE LET i == CHOOSE i \in 1..Len(conflicts) :
                     \A j \in 1..Len(conflicts) :
                        SeverityRank(conflicts[i].severity)
                           >= SeverityRank(conflicts[j].severity)
         IN  conflicts[i].severity

(* if record_history { for conflict in &conflicts { push } }                *)
history_push_always(conflicts, record_history) == conflicts

history_push(conflicts, record_history) ==
    IF record_history THEN conflicts ELSE <<>>

(* evaluate_conflicts_internal for a reservation at place self of the      *)
(* index (0 for a preview): the catalog first, then the other              *)
(* reservations.  highest_severity follows the satellite conflicts only.   *)
(* model_updates lists the objects check_satellite_conflict scored with    *)
(* guard.predict and guard.update (the flagged ones), history_pushed what  *)
(* the evaluation appended to conflict_history.                            *)
evaluate_conflicts_internal(store, reservation, self, catalog_len, ml, record) ==
    LET satellites == Flatten([k \in 1..catalog_len |->
                         check_satellite_conflict(reservation,
                                                  CatalogSatellite(k), ml[k])])
        overlaps   == Flatten([j \in 1..Len(store) |->
                         IF j = self THEN <<>>
                         ELSE check_reservation_overlap(reservation, store[j], j)])
        conflicts  == satellites \o overlaps
    IN  [conflicts |-> conflicts,
         conflicts_found |-> Len(conflicts),
         highest_severity |-> HighestSeverity(satellites),
         model_updates |-> [k \in 1..Len(satellites) |-> satellites[k].other],
         history_pushed |-> history_push(conflicts, record)]

(* summarize_feasibility: the three tests behind safe_to_launch            *)
summarize_feasibility(reservation, assessment) ==
    LET conflicts == assessment.conflicts
        idx       == 1..Len(conflicts)
        dists     == { conflicts[i].minimum_distance_km : i \in idx }
        probs     == { conflicts[i].collision_probability : i \in idx }
        min_value == IF idx = {} THEN INFINITY
                     ELSE CHOOSE d \in dists : \A e \in dists : d <= e
        max_value == IF idx = {} THEN 0
                     ELSE CHOOSE p \in probs : \A q \in probs : p >= q
        distance_ok    == \/ idx = {}
                          \/ min_value >= INFINITY
                          \/ DistanceAtLeast(min_value,
                                             reservation.protection_radius_km)
        probability_ok == \/ idx = {}
                          \/ max_value <= reservation.max_conjunction_probability
        severity_ok    == SeverityRank(assessment.highest_severity)
                             <= SeverityRank("Low")
    IN  distance_ok /\ probability_ok /\ severity_ok

NoReservation ==
    [start_time |-> 0, end_time |-> 0, center |-> ReservedOrbit,
     protection_radius_km |-> 0, priority_level |-> "Medium",
     status |-> "Pending", max_conjunction_probability |-> 0,
     launch_profile |-> NoLaunch]

NoResponse ==
    [op |-> "none", ok |-> TRUE, subject |-> 0, catalog |-> 0,
     reservation |-> NoReservation, conflicts |-> <<>>, conflicts_found |-> 0,
     highest_severity |-> "Low", safe_to_launch |-> FALSE,
     model_updates |-> <<>>, history_pushed |-> <<>>]

Response(operation, subject, catalog_len, reservation, assessment) ==
    [op |-> operation, ok |-> TRUE, subject |-> subject, catalog |-> catalog_len,
     reservation |-> reservation,
     conflicts |-> assessment.conflicts,
     conflicts_found |-> assessment.conflicts_found,
     highest_severity |-> assessment.highest_severity,
     safe_to_launch |-> summarize_feasibility(reservation, assessment),
     model_updates |-> assessment.model_updates,
     history_pushed |-> assessment.history_pushed]

Failed(operation, subject) ==
    [NoResponse EXCEPT !.op = operation, !.ok = FALSE, !.subject = subject]

outsideRes == <<catVars, loadVars, alertVars, riskVars, conjVars, auxVars>>

InitRes ==
    /\ CatIdle
    /\ AuxIdle
    /\ LoadIdle
    /\ AlertIdle
    /\ RiskIdle
    /\ ConjIdle
    /\ res_store = <<>>
    /\ res_check = NoResponse

(* The create_reservation handler: create_reservation, then                *)
(* check_reservation_conflicts for the new reservation and                 *)
(* summarize_feasibility, under one lock of the manager.                   *)
ResCreate ==
    /\ Len(res_store) < MaxReservations
    /\ \E request \in CreateRequests, catalog_len \in CatalogSizes :
       \E ml \in [1..catalog_len -> MlLevels] :
          LET center == resolve_center_satellite(request)
              reservation ==
                  [start_time |-> request.start_time,
                   end_time |-> request.end_time,
                   center |-> center.sat,
                   protection_radius_km |-> request.protection_radius_km,
                   priority_level |-> request.priority_level,
                   status |-> "Pending",
                   max_conjunction_probability |->
                       DefaultMaxProbability(request.priority_level),
                   launch_profile |-> center.launch_profile]
              stored == Append(res_store, reservation)
          IN  IF ~center.ok
              THEN /\ res_check' = Failed("create", 0)
                   /\ UNCHANGED res_store
              ELSE \E assessment \in { evaluate_conflicts_internal(
                                stored, reservation, Len(stored), catalog_len, ml, TRUE) } :
                      /\ res_store' = stored
                      /\ res_check' = Response("create", Len(stored), catalog_len,
                                               reservation, assessment)
    /\ UNCHANGED outsideRes

(* The check_reservation_conflicts handler; an id outside the index is     *)
(* not found.                                                              *)
ResCheck ==
    /\ \E id \in 1..MaxReservations, catalog_len \in CatalogSizes :
       \E ml \in [1..catalog_len -> MlLevels] :
          IF id > Len(res_store)
          THEN res_check' = Failed("check", id)
          ELSE \E assessment \in { evaluate_conflicts_internal(
                            res_store, res_store[id], id, catalog_len, ml, TRUE) } :
                  res_check' = Response("check", id, catalog_len, res_store[id],
                                        assessment)
    /\ UNCHANGED <<res_store, outsideRes>>

(* The assess_launch_feasibility handler: a preview reservation over       *)
(* window_hours from the launch epoch, never stored.                       *)
ResFeasibility ==
    /\ \E launch \in LaunchSpecs, radius \in FeasibilityRadii,
          priority \in Priorities, catalog_len \in CatalogSizes :
       \E ml \in [1..catalog_len -> MlLevels] :
          LET center == build_launch_satellite(launch)
              reservation ==
                  [start_time |-> 0,
                   end_time |-> 0 + HOUR,
                   center |-> center.sat,
                   protection_radius_km |-> radius,
                   priority_level |-> priority,
                   status |-> "Pending",
                   max_conjunction_probability |-> 5000,
                   launch_profile |-> center.launch_profile]
          IN  IF ~center.ok
              THEN res_check' = Failed("feasibility", 0)
              ELSE \E assessment \in { evaluate_conflicts_internal(
                                res_store, reservation, 0, catalog_len, ml, FALSE) } :
                      res_check' = Response("feasibility", 0, catalog_len,
                                            reservation, assessment)
    /\ UNCHANGED <<res_store, outsideRes>>

(* update_reservation_status                                               *)
ResUpdateStatus ==
    /\ \E id \in 1..MaxReservations, status \in ReservationStatus :
          IF id > Len(res_store)
          THEN /\ res_check' = Failed("update_status", id)
               /\ UNCHANGED res_store
          ELSE /\ res_store' = [res_store EXCEPT ![id].status = status]
               /\ res_check' = [NoResponse EXCEPT !.op = "update_status",
                                                  !.subject = id]
    /\ UNCHANGED outsideRes

(* Three specifications of the manager.  No evaluation reads a status, so  *)
(* the life cycle of the reservations (SpecRes) and the evaluations        *)
(* (SpecEval) are explored apart; SpecLife checks reservations whose       *)
(* status has been changed.                                                *)
NextRes == ResCreate \/ ResUpdateStatus

SpecRes == InitRes /\ [][NextRes]_vars

NextEval == ResCreate \/ ResCheck \/ ResFeasibility

SpecEval == InitRes /\ [][NextEval]_vars

NextLife == ResCreate \/ ResUpdateStatus \/ ResCheck

SpecLife == InitRes /\ [][NextLife]_vars

----------------------------------------------------------------------------
(* The backend binary (backend/src/main.rs, handlers.rs): the admin routes *)
(* of the router and the require_admin middleware.                         *)

(* The admin routes in the order main registers them.                      *)
AdminRoutes ==
    << "GET /api/admin/users", "GET /api/admin/users/:id",
       "POST /api/admin/users/:id", "DELETE /api/admin/users/:id",
       "GET /api/admin/providers", "GET /api/admin/providers/:id",
       "POST /api/admin/providers/:id/approve",
       "POST /api/admin/providers/:id/reject",
       "GET /api/admin/slots", "GET /api/admin/slots/:id",
       "POST /api/admin/slots/:id/override",
       "GET /api/admin/bookings", "GET /api/admin/bookings/:id",
       "POST /api/admin/bookings/:id", "DELETE /api/admin/bookings/:id",
       "GET /api/admin/compliance",
       "POST /api/admin/compliance/:id/review" >>

(* main calls .route(..) for every admin route twice: first with the       *)
(* handler wrapped in from_fn_with_state(.., require_admin), then with the *)
(* bare handler.                                                           *)
RouteCalls ==
    [i \in 1..(2 * Len(AdminRoutes)) |->
        [route   |-> AdminRoutes[((i - 1) % Len(AdminRoutes)) + 1],
         layered |-> i <= Len(AdminRoutes)]]

(* What Router::route does with a method and path that already have a      *)
(* handler is decided by the router library, which is not part of the      *)
(* sources: it panics, keeps the first handler or takes the last one.      *)
OverlapPolicies == {"panic", "keep_first", "replace"}

(* The Authorization header of a request: absent, a bearer token that does *)
(* not decode, a valid token of another role, a valid token of role admin. *)
Tokens == {"absent", "invalid", "operator", "admin"}

(* main installs the state with with_state and no Extension<String> layer. *)
JwtSecretExtension == FALSE

NoAnswer ==
    [sent |-> FALSE, route |-> "", token |-> "absent", status |-> 0,
     handler_ran |-> FALSE]

Answer(route, token, status, ran) ==
    [sent |-> TRUE, route |-> route, token |-> token, status |-> status,
     handler_ran |-> ran]

(* The admin handlers are stubs that answer 501 Not Implemented.           *)
admin_handler(route, token) == Answer(route, token, 501, TRUE)

(* require_admin: the TypedHeader extractor rejects a request without the  *)
(* header (400), the Extension extractor one without the extension (500);  *)
(* then the token is decoded and the role compared with "admin".           *)
require_admin(route, token) ==
    IF token = "absent" THEN Answer(route, token, 400, FALSE)
    ELSE IF ~JwtSecretExtension THEN Answer(route, token, 500, FALSE)
    ELSE IF token = "admin" THEN admin_handler(route, token)
    ELSE Answer(route, token, 403, FALSE)

InitAdmin ==
    /\ CatIdle
    /\ LoadIdle
    /\ AlertIdle
    /\ RiskIdle
    /\ ConjIdle
    /\ ResIdle
    /\ LockIdle
    /\ ad_phase = "building"
    /\ ad_next = 1
    /\ ad_table = <<>>
    /\ ad_policy \in OverlapPolicies
    /\ ad_resp = NoAnswer

outsideAdmin == <<catVars, loadVars, alertVars, riskVars, conjVars, resVars,
                  lockVars>>

(* One .route(..) call of main.                                            *)
AdRoute ==
    /\ ad_phase = "building"
    /\ ad_next <= Len(RouteCalls)
    /\ LET call == RouteCalls[ad_next]
           with == [r \in DOMAIN ad_table \cup {call.route} |->
                       IF r = call.route THEN call.layered ELSE ad_table[r]]
       IN  IF call.route \notin DOMAIN ad_table
           THEN /\ ad_table' = with
                /\ ad_phase' = ad_phase
           ELSE CASE ad_policy = "panic" ->
                       /\ ad_phase' = "panicked"
                       /\ ad_table' = ad_table
                  [] ad_policy = "keep_first" ->
                       /\ ad_phase' = ad_phase
                       /\ ad_table' = ad_table
                  [] OTHER ->
                       /\ ad_phase' = ad_phase
                       /\ ad_table' = with
    /\ ad_next' = ad_next + 1
    /\ UNCHANGED <<ad_policy, ad_resp, outsideAdmin>>

(* The router is complete: the listener is bound and the server runs.      *)
AdServe ==
    /\ ad_phase = "building"
    /\ ad_next > Len(RouteCalls)
    /\ ad_phase' = "serving"
    /\ UNCHANGED <<ad_next, ad_table, ad_policy, ad_resp, outsideAdmin>>

(* A request to an admin endpoint.  A process that panicked while building *)
(* the router answers nothing.                                             *)
AdRequest ==
    /\ ad_phase \in {"serving", "panicked"}
    /\ \E route \in DOMAIN ad_table, token \in Tokens :
          ad_resp' = IF ad_phase = "panicked"
                     THEN Answer(route, token, 0, FALSE)
                     ELSE IF ad_table[route]
                          THEN require_admin(route, token)
                          ELSE admin_handler(route, token)
    /\ UNCHANGED <<ad_phase, ad_next, ad_table, ad_policy, outsideAdmin>>

NextAdmin == AdRoute \/ AdServe \/ AdRequest

SpecAdmin == InitAdmin /\ [][NextAdmin]_vars

----------------------------------------------------------------------------
(* The locks of the service: the tracker and last_update mutexes of        *)
(* SatelliteApi (api.rs), the mutexes of the conjunction analyzer and of   *)
(* the reservation manager and the RwLock of the risk model (handlers.rs,  *)
(* reservation.rs).  Every task is the sequence of lock and unlock steps   *)
(* its handler still has to take.                                          *)

Locks == {"tracker", "last_update", "analyzer", "manager", "risk_model"}

LockTasks == {"background", "worker1", "worker2"}

Acq(l, m) == [act |-> "acquire", lock |-> l, mode |-> m]
Rel(l)    == [act |-> "release", lock |-> l, mode |-> "none"]

(* update_satellite_data: the tracker guard lives to the end of the        *)
(* function, the last_update guard for one statement.                      *)
UpdateLocks ==
    << Acq("tracker", "w"), Acq("last_update", "w"), Rel("last_update"),
       Rel("tracker") >>

(* ensure_data_fresh: last_update is read under its own lock; a stale      *)
(* catalog is refreshed, and a failed refresh (no data: no lock taken)     *)
(* ends the query.                                                         *)
Freshness == {"fresh", "refreshed", "failed"}

EnsureLocks(f) ==
    << Acq("last_update", "w"), Rel("last_update") >>
       \o (IF f = "refreshed" THEN UpdateLocks ELSE <<>>)

(* get_all_satellites, get_satellite, get_satellite_group                  *)
ReadLocks == << Acq("tracker", "w"), Rel("tracker") >>

(* get_statistics: last_update is locked while the tracker guard is held.  *)
StatisticsLocksInverted ==
    << Acq("last_update", "w"), Acq("tracker", "w"), Rel("tracker"),
       Rel("last_update") >>

StatisticsLocks ==
    << Acq("tracker", "w"), Acq("last_update", "w"), Rel("last_update"),
       Rel("tracker") >>

(* A query of the catalog behind the freshness gate.                       *)
CatalogLocks(f, body) == EnsureLocks(f) \o (IF f = "failed" THEN <<>> ELSE body)

(* The background task: each guard is dropped before the next lock.        *)
BackgroundLocks ==
    << Acq("tracker", "w"), Rel("tracker"),
       Acq("last_update", "w"), Rel("last_update") >>

(* risk_model.write() around predict and update, once per scored object.   *)
RECURSIVE ScoreLocks(_)
ScoreLocks(n) ==
    IF n = 0 THEN <<>>
    ELSE << Acq("risk_model", "w"), Rel("risk_model") >> \o ScoreLocks(n - 1)

Handlers ==
    {"get_all_satellites", "get_statistics", "analyze_conjunctions",
     "predict_risk", "check_reservation_conflicts", "list_reservations"}

(* The lock steps of a handler, for a catalog that is fresh, refreshed or  *)
(* not refreshable, and n objects scored with the risk model.              *)
HandlerLocks(h, f, n) ==
    CASE h = "get_all_satellites" -> CatalogLocks(f, ReadLocks)
      [] h = "get_statistics" -> CatalogLocks(f, StatisticsLocks)
      [] h = "analyze_conjunctions" ->
            CatalogLocks(f, ReadLocks \o
                << Acq("analyzer", "w"), Rel("analyzer") >>)
      [] h = "predict_risk" ->
            CatalogLocks(f, ReadLocks \o
                << Acq("analyzer", "w"), Rel("analyzer") >> \o ScoreLocks(n)
                \o << Acq("risk_model", "r"), Rel("risk_model") >>)
      [] h = "check_reservation_conflicts" ->
            CatalogLocks(f, ReadLocks \o
                << Acq("manager", "w") >> \o ScoreLocks(n)
                \o << Rel("manager") >>)
      [] h = "list_reservations" -> << Acq("manager", "w"), Rel("manager") >>

InitLocks ==
    /\ CatIdle
    /\ LoadIdle
    /\ AlertIdle
    /\ RiskIdle
    /\ ConjIdle
    /\ ResIdle
    /\ AdminIdle
    /\ lk_prog = [t \in LockTasks |-> <<>>]
    /\ lk_held = [l \in Locks |-> {}]

outsideLocks == <<catVars, loadVars, alertVars, riskVars, conjVars, resVars,
                  adminVars>>

(* Mutex::lock and RwLock::write need the lock free, RwLock::read needs it *)
(* free of a writer.                                                       *)
Available(l, m) ==
    IF m = "r" THEN \A g \in lk_held[l] : g.mode = "r" ELSE lk_held[l] = {}

(* A request reaches a worker, or the interval of the background task      *)
(* fires.                                                                  *)
LkStart(t) ==
    /\ lk_prog[t] = <<>>
    /\ IF t = "background"
       THEN lk_prog' = [lk_prog EXCEPT ![t] = BackgroundLocks]
       ELSE \E h \in Handlers, f \in Freshness, n \in 0..MaxScored :
               lk_prog' = [lk_prog EXCEPT ![t] = HandlerLocks(h, f, n)]
    /\ UNCHANGED <<lk_held, outsideLocks>>

LkAcquire(t) ==
    /\ lk_prog[t] # <<>>
    /\ Head(lk_prog[t]).act = "acquire"
    /\ Available(Head(lk_prog[t]).lock, Head(lk_prog[t]).mode)
    /\ lk_held' = [lk_held EXCEPT ![Head(lk_prog[t]).lock] =
                      @ \cup { [task |-> t, mode |-> Head(lk_prog[t]).mode] }]
    /\ lk_prog' = [lk_prog EXCEPT ![t] = Tail(@)]
    /\ UNCHANGED outsideLocks

LkRelease(t) ==
    /\ lk_prog[t] # <<>>
    /\ Head(lk_prog[t]).act = "release"
    /\ lk_held' = [lk_held EXCEPT ![Head(lk_prog[t]).lock] =
                      { g \in @ : g.task # t }]
    /\ lk_prog' = [lk_prog EXCEPT ![t] = Tail(@)]
    /\ UNCHANGED outsideLocks

NextLocks ==
    \/ \E t \in LockTasks : LkStart(t)
    \/ \E t \in LockTasks : LkAcquire(t)
    \/ \E t \in LockTasks : LkRelease(t)

SpecLocks == InitLocks /\ [][NextLocks]_vars

----------------------------------------------------------------------------
(* Properties                                                              *)

(* C1: whenever a refresh ends with zero viable objects (NoData), the      *)
(* catalog and last_update are left as they were.                          *)
C1_FailedRefreshKeepsCatalog ==
    [][\A t \in Tasks :
          (refreshResult'[t] = "NoData" /\ refreshResult[t] # "NoData")
             => (catalog' = catalog /\ last_update' = last_update)]_vars

(* C2: after load(seq) the catalog holds, for every catalog_id, the first  *)
(* copy in input order whose propagator initialisation succeeded.          *)
FirstGoodCopy(seq, id) ==
    LET good == { i \in 1..Len(seq) :
                    seq[i].norad_id = id /\ seq[i].sgp4_ok }
        first == CHOOSE i \in good : \A j \in good : i <= j
    IN  seq[first].name

GoodIds(seq) == { seq[i].norad_id : i \in { j \in 1..Len(seq) : seq[j].sgp4_ok } }

C2_FirstGoodCopyWins ==
    ld_phase \in { "loaded", "refreshed" } =>
        /\ DOMAIN catalog = GoodIds(ld_input)
        /\ \A id \in DOMAIN catalog : catalog[id] = FirstGoodCopy(ld_input, id)

(* C3 as stated: a query that returns successfully read the catalog at a   *)
(* time when now - last_update <= refresh_interval, or its refresh was     *)
(* attempted and failed.                                                   *)
C3_FreshAtRead ==
    [][\A t \in Requests :
          (pc[t] = "q_read" /\ pc'[t] = "q_done" /\ result'[t].status = "Ok")
             => \/ clock - last_update <= UpdateIntervalTicks
                \/ refreshResult[t] = "NoData"]_vars

(* C3 amended: a query that returns successfully either found in its       *)
(* freshness check that the last_update it read was at most                *)
(* refresh_interval older than the clock it read, or ran a refresh of its  *)
(* own that succeeded before it read the catalog.                          *)
C3_FreshAtCheck ==
    \A t \in Requests :
        (pc[t] = "q_done" /\ result[t].status = "Ok")
           => \/ refreshResult[t] = "Ok"
              \/ now_seen[t] - lu_seen[t] <= UpdateIntervalTicks

C3_Witness ==
    \E t \in Requests :
        /\ pc[t] = "q_done"
        /\ result[t].status = "Ok"
        /\ refreshResult[t] = "Ok"
        /\ now_seen[t] - lu_seen[t] > UpdateIntervalTicks

(* C4: a refresh cancelled at a suspension point has written nothing: it   *)
(* holds no tracker guard, has not replaced the catalog, and the catalog   *)
(* and last_update are what they were.                                     *)
C4_CancelLeavesCatalog ==
    [][\A t \in Tasks :
          (refreshResult'[t] = "Cancelled" /\ refreshResult[t] # "Cancelled")
             => /\ ~dirty[t]
                /\ trackerLock # t
                /\ catalog' = catalog
                /\ last_update' = last_update]_vars

C4_Witness ==
    \E t \in Tasks :
        /\ pc[t] \in { "dropped", "stopped" }
        /\ refreshResult[t] = "Cancelled"
        /\ DOMAIN catalog # {}

(* C5: at most one task is performing a catalog refresh (fetch + load).    *)
RefreshPcs ==
    { Feeds[i] : i \in 1..Len(Feeds) } \cup
    { "r_check", "r_lock", "r_load", "r_now", "r_setlu", "bg_setlu" }

C5_SingleRefresher ==
    Cardinality({ t \in Tasks : pc[t] \in RefreshPcs }) <= 1

(* C6: the stored last_update never decreases.                             *)
C6_LastUpdateMonotonic == [][last_update' >= last_update]_vars

(* C7: a query never waits for a refresh: when it is about to read the     *)
(* catalog the tracker mutex is not held by a refreshing task.             *)
C7_ReadsNeverBlocked ==
    \A t \in Requests :
        pc[t] = "q_read" =>
            ~(\E r \in Tasks \ {t} : trackerLock = r /\ pc[r] \in RefreshPcs)

(* C8: list_objects returns the slice [page*limit, min(page*limit+limit,   *)
(* n)) of the catalog states sorted by catalog_id ascending.               *)
C8_ListSortedSlice ==
    ld_phase = "listed" =>
        ld_out = Paginate(SortByKey(Positions(iterOrder, ld_page.fail)),
                          ld_page.page, ld_page.limit)

(* C9: a stream bound to tenant T is never delivered an alert whose        *)
(* tenant_id differs from T.                                               *)
C9_TenantIsolation ==
    \A s \in Streams :
        sub[s].on =>
            \A i \in 1..Len(sub[s].delivered) :
                sub[s].delivered[i].tenant_id = sub[s].tenant

C9_Witness ==
    \E s \in Streams :
        /\ sub[s].on
        /\ sub[s].tenant = "alpha"
        /\ sub[s].delivered # <<>>
        /\ sub[s].next = Len(chan)
        /\ \E i, j \in (sub[s].since + 1)..Len(published) :
              /\ published[i].tenant_id = DEFAULT_TENANT
              /\ published[j].tenant_id = "beta"

(* C10: a connected stream that never lagged has been delivered exactly    *)
(* the alerts of its tenant published since it subscribed and already      *)
(* taken from the channel, each once and in publish order.                 *)
ExpectedDelivery(s) ==
    LET upto    == Len(published) - (Len(chan) - sub[s].next)
        Mine(a) == a.tenant_id = sub[s].tenant
    IN  SelectSeq(SubSeq(published, sub[s].since + 1, upto), Mine)

C10_ExactlyOnceInOrder ==
    \A s \in Streams :
        (sub[s].on /\ ~sub[s].lagged) => sub[s].delivered = ExpectedDelivery(s)

C10_Witness ==
    \E s1, s2 \in Streams :
        /\ sub[s1].on /\ sub[s2].on
        /\ ~sub[s1].lagged /\ ~sub[s2].lagged
        /\ sub[s1].tenant # sub[s2].tenant
        /\ Len(sub[s1].delivered) >= 2
        /\ Len(sub[s2].delivered) >= 1
        /\ sub[s1].next = Len(chan) /\ sub[s2].next = Len(chan)
        /\ sub[s1].since > 0

(* C11: the channel is bounded and lossy on lag.  Publishing is possible   *)
(* whatever the receivers are doing (none connected, or any of them        *)
(* behind); a receiver loses only alerts the channel has already           *)
(* overwritten, it has been given the lag signal whenever it lost one, and *)
(* what it has delivered is exactly its tenant's alerts among the values   *)
(* it took and did not lose, in publish order.                             *)
TakenNotLost(s) ==
    LET idx     == [i \in 1..Len(chan) |-> i]
        Keep(i) == /\ i <= sub[s].next
                   /\ i \notin sub[s].lost
                   /\ chan[i].id > sub[s].since
                   /\ chan[i].tenant_id = sub[s].tenant
        kept    == SelectSeq(idx, Keep)
    IN  [k \in 1..Len(kept) |-> chan[kept[k]]]

C11_LossyOnLag ==
    /\ Len(published) < MaxPublished => ENABLED Publish
    /\ \A s \in Streams :
          sub[s].on =>
              /\ sub[s].lost # {} => sub[s].lagged
              /\ \A i \in sub[s].lost : i <= Len(chan) - AlertBuffer
              /\ sub[s].delivered = TakenNotLost(s)

C11_Witness ==
    \E s \in Streams :
        /\ sub[s].on
        /\ sub[s].lagged
        /\ sub[s].lost # {}
        /\ Len(sub[s].delivered) >= 2
        /\ sub[s].next = Len(chan)

(* C12: while an evaluation stands between its predict and its update,     *)
(* the shared parameters are still the ones its predict read: no other     *)
(* evaluation's update has taken effect in between.                        *)
C12_PredictUpdateAtomic ==
    \A t \in RiskTasks :
        rk_pc[t] = "update" => Params(rk_model) = rk_seen[t]

C12_Witness ==
    \E t, u \in RiskTasks :
        /\ t # u
        /\ rk_pc[t] = "update"
        /\ rk_pc[u] = "next"
        /\ rk_left[u] # <<>>
        /\ Head(rk_left[u]) # "clear"
        /\ \E i \in 1..Len(rk_model.weights.hist) : rk_model.weights.hist[i] = u

(* C13: an evaluation that finds the risk-model lock poisoned still        *)
(* completes with a result; the objects it could not score carry the       *)
(* fallback ML probability 0.0.                                            *)
C13_ModelOutageNeverFails ==
    \A t \in RiskTasks : rk_pc[t] = "done" => rk_out[t].ok

(* C14: the model a start of the service loads is the model the last       *)
(* persist wrote (bias, coefficients, observation_count, last_updated,     *)
(* learning_rate, l2_penalty); the defaults are taken only when the file   *)
(* is absent, unreadable or does not parse.                                *)
C14_PersistLoadRoundTrip ==
    [][(~rk_up /\ rk_up')
          => /\ rk_saved.set => rk_model' = rk_saved.model
             /\ rk_source' = "defaults"
                   => (rk_file.kind # "json" \/ ~ParsesAsModel(rk_file.doc))]_vars

(* C15: the returned event list is sorted by pc descending, and events     *)
(* with equal pc come in order of TCA, earlier first.                      *)
C15_SortedByPcThenTca ==
    cj_resp.done =>
        \A i, j \in 1..Len(cj_resp.conjunctions) :
            i < j =>
                LET a == cj_resp.conjunctions[i]
                    b == cj_resp.conjunctions[j]
                IN  a.pc > b.pc \/ (a.pc = b.pc /\ a.tca <= b.tca)

(* C16: analyzed in either order over the same window, a pair gets the     *)
(* same candidate decision and the same tca, dmin and pc; only the labels  *)
(* satellite_a and satellite_b are exchanged.                              *)
PairsOf(cands) ==
    { { cands[i][1].norad_id, cands[i][2].norad_id } : i \in 1..Len(cands) }

Unlabelled(events) ==
    { [pair |-> { events[i].satellite_a, events[i].satellite_b },
       tca |-> events[i].tca, dmin_km |-> events[i].dmin_km,
       pc |-> events[i].pc] : i \in 1..Len(events) }

C16_PairSymmetry ==
    (cj_first.done /\ cj_resp.done) =>
        /\ PairsOf(cj_resp.candidates) = PairsOf(cj_first.candidates)
        /\ Unlabelled(cj_resp.conjunctions) = Unlabelled(cj_first.conjunctions)

C16_Witness ==
    /\ cj_first.done /\ cj_resp.done
    /\ Len(cj_sats) = 2
    /\ Len(cj_first.conjunctions) = 1
    /\ Len(cj_resp.conjunctions) = 1
    /\ cj_first.conjunctions[1].satellite_a = cj_resp.conjunctions[1].satellite_b
    /\ cj_first.conjunctions[1].satellite_a # cj_resp.conjunctions[1].satellite_a
    /\ cj_resp.conjunctions[1].pc > 0
    /\ cj_resp.conjunctions[1].tca > cj_req.start

(* C17: every stored reservation has end > start and a positive            *)
(* protection radius, and apogee >= perigee when it was built from a       *)
(* new_launch specification.                                               *)
C17_StoredReservationsValid ==
    \A i \in 1..Len(res_store) :
        /\ res_store[i].end_time > res_store[i].start_time
        /\ res_store[i].protection_radius_km > 0
        /\ res_store[i].launch_profile.set =>
              res_store[i].launch_profile.apogee_alt_km
                 >= res_store[i].launch_profile.perigee_alt_km

(* C18: a status changes only along Pending -> Active, Active -> Expired,  *)
(* Active -> Violated and any -> Cancelled; Expired, Cancelled and         *)
(* Violated are never left.                                                *)
AllowedTransition(old, new) ==
    \/ old = "Pending" /\ new = "Active"
    \/ old = "Active" /\ new \in { "Expired", "Violated" }
    \/ old \notin { "Expired", "Cancelled", "Violated" } /\ new = "Cancelled"

C18_StatusTransitions ==
    [][\A i \in 1..Len(res_store) :
          res_store'[i].status # res_store[i].status =>
             AllowedTransition(res_store[i].status, res_store'[i].status)]_vars

(* C19: safe_to_launch holds exactly when every conflict of the assessment *)
(* is at least protection_radius away, none has a collision probability    *)
(* above the cap and none has a severity above Low; with an empty catalog  *)
(* and no other reservation it is true with no conflicts and severity Low. *)
Assessed == res_check.ok /\ res_check.op \in { "create", "feasibility" }

C19_SafeToLaunch ==
    Assessed =>
        LET c == res_check.conflicts
            r == res_check.reservation
        IN  /\ res_check.safe_to_launch <=>
                  \A i \in 1..Len(c) :
                     /\ DistanceAtLeast(c[i].minimum_distance_km,
                                        r.protection_radius_km)
                     /\ c[i].collision_probability
                           <= r.max_conjunction_probability
                     /\ c[i].severity = "Low"
            /\ (res_check.catalog = 0
                  /\ \A j \in 1..Len(res_store) : j = res_check.subject) =>
                  /\ res_check.safe_to_launch
                  /\ res_check.conflicts_found = 0
                  /\ res_check.highest_severity = "Low"

(* C20: checking reservation A reports an overlap conflict with another    *)
(* stored reservation B exactly when their time intervals overlap and the  *)
(* centers are closer than r_a + r_b at the middle of the overlap; its     *)
(* severity is High when either priority is Critical and Medium otherwise, *)
(* and its mitigation is CoordinatedOperation.  The condition is the same  *)
(* with A and B exchanged.                                                 *)
IntervalsOverlap(a, b) ==
    (a.start_time .. a.end_time) \cap (b.start_time .. b.end_time) # {}

OverlapCondition(a, b) ==
    /\ IntervalsOverlap(a, b)
    /\ DistanceBelow(CenterDistance(a, b, MidTime(a, b)),
                     a.protection_radius_km + b.protection_radius_km)

Checked == res_check.ok /\ res_check.op \in { "create", "check", "feasibility" }

C20_OverlapConflict ==
    Checked =>
        \A j \in 1..Len(res_store) :
            j # res_check.subject =>
                LET a == res_check.reservation
                    b == res_store[j]
                    reported == { i \in 1..Len(res_check.conflicts) :
                                    /\ res_check.conflicts[i].kind = "reservation"
                                    /\ res_check.conflicts[i].other = j }
                IN  /\ reported # {} <=> OverlapCondition(a, b)
                    /\ OverlapCondition(a, b) <=> OverlapCondition(b, a)
                    /\ \A i \in reported :
                          /\ res_check.conflicts[i].severity =
                                IF \/ a.priority_level = "Critical"
                                   \/ b.priority_level = "Critical"
                                THEN "High" ELSE "Medium"
                          /\ res_check.conflicts[i].mitigation =
                                "CoordinatedOperation"

(* C21: every /api/admin/* endpoint is reachable only with a valid token   *)
(* of role admin: a request without a token, with an invalid token or with *)
(* another role is answered 401 or 403 and the admin handler never runs.   *)
C21_AdminOnly ==
    (ad_resp.sent /\ ad_resp.token # "admin")
        => (ad_resp.status \in {401, 403} /\ ~ad_resp.handler_ran)

(* C22: each update increases observation_count by exactly one            *)
(* (saturating at the u64 maximum); update attempts a persist exactly when *)
(* the new count is a multiple of SAVE_INTERVAL; a failing persist is only *)
(* logged: the parameter update stays and the caller goes on unfailed.     *)
UpdateStep(t) == rk_pc[t] = "update" /\ rk_pc'[t] = "next"

C22_UpdateCountsAndSaves ==
    [][\A t \in RiskTasks :
          UpdateStep(t) =>
             /\ rk_model'.observation_count =
                   IF rk_model.observation_count = U64_MAX THEN U64_MAX
                   ELSE rk_model.observation_count + 1
             /\ (rk_persist' # "none")
                   <=> (rk_model'.observation_count % SAVE_INTERVAL = 0)
             /\ rk_model'.weights.hist = Append(rk_model.weights.hist, t)
             /\ rk_persist' = "io_error" => rk_file' = rk_file
             /\ rk_persist' = "ok" => rk_file' = JsonFile(rk_model')
             /\ rk_out'[t].ok
             /\ Len(rk_out'[t].ml) = Len(rk_out[t].ml) + 1]_vars

(* An update reached a multiple of SAVE_INTERVAL, its persist failed, and  *)
(* the updated model is in place.                                          *)
C22_Witness ==
    /\ rk_up
    /\ rk_persist = "io_error"
    /\ rk_model.observation_count = SAVE_INTERVAL
    /\ rk_model.weights.hist # <<>>
    /\ rk_file = JsonFile(EarlierModel)

(* C23: an unordered pair (i, j) enters the candidate set exactly once,    *)
(* and it does if and only if the altitude prefilter keeps it (altitudes   *)
(* at most 200 km apart) and at some coarse step from start_time to        *)
(* start_time + horizon_h its distance is below the screening distance     *)
(* given to the analysis.                                                  *)
C23_BroadPhase ==
    cj_phase \in {"pairs", "done"} =>
        /\ \A k, l \in 1..Len(cj_cands) :
              k # l => { cj_cands[k][1].norad_id, cj_cands[k][2].norad_id }
                         # { cj_cands[l][1].norad_id, cj_cands[l][2].norad_id }
        /\ \A i, j \in 1..Len(cj_sats) :
              i < j =>
                 ( { cj_sats[i].norad_id, cj_sats[j].norad_id }
                        \in PairsOf(cj_cands)
                   <=> /\ Abs(estimate_altitude_from_tle(cj_sats[i])
                              - estimate_altitude_from_tle(cj_sats[j]))
                             <= ALTITUDE_GATE
                       /\ \E t \in SampleTimes(cj_req.start, EndTime,
                                               COARSE_STEP) :
                             Distance(propagate_to_eci(cj_sats[i], t),
                                      propagate_to_eci(cj_sats[j], t))
                               < cj_req.screening_distance_km
                                   * cj_req.screening_distance_km )

(* C24: a cataloged object is reported as a conflict of a reservation if  *)
(* and only if its minimum sampled distance over [start, end] (5-minute    *)
(* steps) is at most protection_radius or its maximum sampled probability  *)
(* is at least constraints.max_pc; an object that satisfies neither        *)
(* produces no conflict and causes no update of the risk model.            *)
SampledWithin(reservation, satellite) ==
    \E t \in SampleTimes(reservation.start_time, reservation.end_time,
                         RES_TIME_STEP) :
       LET d2 == Distance(propagate_to_eci(reservation.center, t),
                          propagate_to_eci(satellite, t))
       IN  \/ /\ reservation.protection_radius_km >= 0
              /\ d2 <= reservation.protection_radius_km
                          * reservation.protection_radius_km
           \/ calculate_simple_collision_probability(d2)
                 >= reservation.max_conjunction_probability

CheckStep(id) ==
    /\ res_check' # res_check
    /\ res_check'.op = "check"
    /\ res_check'.ok
    /\ res_check'.subject = id

C25_ActiveBecomesViolated ==
    [][\A id \in 1..Len(res_store) :
          ( /\ CheckStep(id)
            /\ res_store[id].status = "Active"
            /\ \E i \in 1..Len(res_check'.conflicts) :
                  SeverityRank(res_check'.conflicts[i].severity)
                     >= SeverityRank("High") )
          => res_store'[id].status = "Violated"]_vars

(* C26: the TCA reported for every conjunction event lies within          *)
(* [start_time, start_time + horizon_h], also after the fine refinement.   *)
C26_TcaInsideWindow ==
    cj_resp.done =>
        \A i \in 1..Len(cj_resp.conjunctions) :
            /\ cj_req.start <= cj_resp.conjunctions[i].tca
            /\ cj_resp.conjunctions[i].tca <= EndTime

(* C28: in every ReservationCheckResponse highest_severity is the maximum *)
(* severity over all listed conflicts, catalog and overlap conflicts       *)
(* alike, and conflicts_found is the number of listed conflicts; no        *)
(* response with highest_severity = Low lists a conflict of severity       *)
(* Medium or above.                                                        *)
C28_SeveritySummary ==
    Checked =>
        LET c == res_check.conflicts
        IN  /\ res_check.conflicts_found = Len(c)
            /\ \A i \in 1..Len(c) :
                  SeverityRank(c[i].severity)
                     <= SeverityRank(res_check.highest_severity)
            /\ \/ c = <<>> /\ res_check.highest_severity = "Low"
               \/ \E i \in 1..Len(c) :
                     c[i].severity = res_check.highest_severity

(* C29: evaluate_launch_feasibility leaves the reservation index and the   *)
(* conflict history unchanged (the preview is not stored and none of its   *)
(* conflicts is recorded), whereas check_reservation_conflicts appends     *)
(* every conflict it finds to the history and changes no reservation.      *)
C29_PreviewLeavesNoTrace ==
    [][/\ (res_check'.op = "feasibility" /\ res_check' # res_check) =>
             /\ res_store' = res_store
             /\ res_check'.history_pushed = <<>>
             /\ res_check'.subject \notin 1..Len(res_store')
       /\ (res_check'.op = "check" /\ res_check' # res_check) =>
             /\ res_store' = res_store
             /\ res_check'.ok =>
                   res_check'.history_pushed = res_check'.conflicts
             /\ res_check'.subject \notin 1..Len(res_store) =>
                   ~res_check'.ok]_vars

(* A preview that found conflicts while a reservation is stored.           *)
C29_Witness ==
    /\ res_check.op = "feasibility"
    /\ res_check.ok
    /\ res_check.conflicts_found > 0
    /\ res_check.history_pushed = <<>>
    /\ Len(res_store) = 1

(* C27: the locks of the service (tracker, last_update, conjunction       *)
(* analyzer, reservation manager, risk model) are taken in a consistent    *)
(* order: in no reachable state does every task of some set wait for a     *)
(* lock that another task of the set (or the task itself) holds.           *)
Waiting(t) ==
    /\ lk_prog[t] # <<>>
    /\ Head(lk_prog[t]).act = "acquire"
    /\ ~Available(Head(lk_prog[t]).lock, Head(lk_prog[t]).mode)

Holders(l) == { g.task : g \in lk_held[l] }

C27_NoDeadlock ==
    \A S \in SUBSET LockTasks :
        S # {} =>
            \E t \in S :
                \/ ~Waiting(t)
                \/ Holders(Head(lk_prog[t]).lock) \cap S = {}

(* A task that holds the tracker waits for last_update, which another     *)
(* task holds.                                                             *)
C27_Witness ==
    \E t \in LockTasks :
        /\ Waiting(t)
        /\ Head(lk_prog[t]).lock = "last_update"
        /\ t \in Holders("tracker")

(* C30: when a query finds the catalog stale and its on-demand refresh    *)
(* fails, the query returns that error and no data, although the previous  *)
(* catalog is still loaded; as long as upstream delivers nothing and       *)
(* last_update is older than refresh_interval every query fails, and a     *)
(* query succeeds again only after a refresh has succeeded.                *)
FoundStale(t) == now_seen[t] - lu_seen[t] > UpdateIntervalTicks

====
